---- MODULE Spec2Model ----
(***************************************************************************)
(* Model of the Well-Architected Tool updater                              *)
(* (src/src/wa_tool_updater/main.py and lambda_function.py).               *)
(*                                                                         *)
(* Python strings are TLA+ strings: Len, \o and SubSeq act on them         *)
(* character by character, so lengths, slices and substring searches are   *)
(* those of the code, with the code's own constants.                       *)
(***************************************************************************)
EXTENDS Integers, Sequences, FiniteSets, TLC

(***************************************************************************)
(* Python string primitives                                                *)
(***************************************************************************)

\* min / max of two integers (Python slices clamp their bounds)
Min2(a, b) == IF a <= b THEN a ELSE b

Max2(a, b) == IF a >= b THEN a ELSE b

\* the character c repeated n times
RECURSIVE Rep(_, _)
Rep(c, n) ==
    IF n <= 0 THEN ""
    ELSE IF n % 2 = 1 THEN c \o Rep(c, n - 1)
    ELSE LET h == Rep(c, n \div 2) IN h \o h

\* The search below sets aside whole blocks of Skip equal plain characters: no
\* occurrence of pat starts inside such a block when pat starts with another character.
Skip == 64

PlainChars == {"u", "a"}

PlainBlocks == {Rep(c, Skip) : c \in PlainChars}

\* the 1-based indexes at which pat occurs in s
Occurrences(s, pat) ==
    LET n == Len(s)
        m == Len(pat)
        last == n - m + 1
        skipping == m > 0 /\ SubSeq(pat, 1, 1) \notin PlainChars
        blocks == {b \in 0..(n \div Skip) :
                     ~(/\ skipping
                       /\ (b + 1) * Skip <= n
                       /\ SubSeq(s, b * Skip + 1, (b + 1) * Skip) \in PlainBlocks)}
    IN  UNION {{i \in (b * Skip + 1)..Min2((b + 1) * Skip, last) :
                   SubSeq(s, i, i + m - 1) = pat} : b \in blocks}

\* s.find(pat): 0-based index of the first occurrence of pat in s, -1 if none
Find(s, pat) ==
    LET hits == Occurrences(s, pat)
    IN  IF hits = {} THEN -1
        ELSE (CHOOSE i \in hits : \A j \in hits : i <= j) - 1

\* pat in s
Contains(s, pat) == Find(s, pat) >= 0

\* s[a:b] for 0 <= a, b <= len(s): the characters a+1 .. b
Sub(s, a, b) == IF a >= b THEN "" ELSE SubSeq(s, a + 1, b)

\* s[:k]
SliceTo(s, k) ==
    IF k >= 0 THEN Sub(s, 0, Min2(k, Len(s)))
    ELSE Sub(s, 0, Max2(0, Len(s) + k))

\* s[k:]  (k >= 0)
SliceFrom(s, k) == Sub(s, Min2(k, Len(s)), Len(s))

\* number of (possibly overlapping) occurrences of pat in s
Count(s, pat) == Cardinality(Occurrences(s, pat))

\* s.startswith(pat), s.endswith(pat)
StartsWith(s, pat) == Len(pat) <= Len(s) /\ SubSeq(s, 1, Len(pat)) = pat

EndsWith(s, pat) == Len(pat) <= Len(s) /\ SubSeq(s, Len(s) - Len(pat) + 1, Len(s)) = pat

(***************************************************************************)
(* Constants of main.py                                                    *)
(***************************************************************************)

MAX_NOTES_LENGTH == 2080

NOTES_SAFETY_MARGIN == 30

\* the budget the code compares against: MAX_NOTES_LENGTH - NOTES_SAFETY_MARGIN
Budget == MAX_NOTES_LENGTH - NOTES_SAFETY_MARGIN

\* "<!-- WA-": the generic part of the start marker that find() looks for
START_PREFIX == "<!-- WA-"

\* start_marker = f"<!-- WA-{timestamp} -->"
start_marker(timestamp) == "<!-- WA-" \o timestamp \o " -->"

end_marker == "<!-- /WA -->"

TRUNCATED == "[Content truncated due to size limits]"

(***************************************************************************)
(* update_wellarchitected_notes: the text computed between get_answer and  *)
(* update_answer (lines 275-330)                                           *)
(***************************************************************************)

\* start_idx = current_notes.find("<!-- WA-")
find_start(current_notes) == Find(current_notes, START_PREFIX)

\* end_idx = current_notes.find(end_marker)
find_end(current_notes) == Find(current_notes, end_marker)

\* if start_idx >= 0 and end_idx >= 0 and end_idx > start_idx
has_section(start_idx, end_idx) ==
    start_idx >= 0 /\ end_idx >= 0 /\ end_idx > start_idx

\* new_section = f"{start_marker}\n{consolidated_notes}\n{end_marker}"
new_section(consolidated_notes, timestamp) ==
    start_marker(timestamp) \o "\n" \o consolidated_notes \o "\n" \o end_marker

\* before_section = current_notes[:start_idx]
before_section(current_notes, start_idx) == SliceTo(current_notes, start_idx)

\* mutant: the end marker itself is kept in the text after the section
after_section_from_marker(current_notes, end_idx) == SliceFrom(current_notes, end_idx)

\* after_section = current_notes[end_idx + len(end_marker):]
after_section(current_notes, end_idx) ==
    SliceFrom(current_notes, end_idx + Len(end_marker))

\* separator = "\n\n" if current_notes else ""
separator(current_notes) == IF current_notes # "" THEN "\n\n" ELSE ""

\* safe_length = MAX_NOTES_LENGTH - len(start_marker) - len(end_marker) - 100
safe_length(timestamp) ==
    MAX_NOTES_LENGTH - Len(start_marker(timestamp)) - Len(end_marker) - 100

\* available_space = MAX_NOTES_LENGTH - NOTES_SAFETY_MARGIN - len(before_section)
\*                   - len(after_section) - len(start_marker) - len(end_marker)
available_space(before, after, timestamp) ==
    MAX_NOTES_LENGTH - NOTES_SAFETY_MARGIN - Len(before) - Len(after)
        - Len(start_marker(timestamp)) - Len(end_marker)

\* truncated_content = consolidated_notes[:available_space - 50]
\*                     + "\n[Content truncated due to size limits]"
truncated_content(consolidated_notes, space) ==
    SliceTo(consolidated_notes, space - 50) \o "\n" \o TRUNCATED

\* truncated_notes = current_notes[:safe_length] if current_notes else ""
truncated_notes(current_notes, timestamp) ==
    IF current_notes # "" THEN SliceTo(current_notes, safe_length(timestamp)) ELSE ""

\* if len(updated_notes) > MAX_NOTES_LENGTH - NOTES_SAFETY_MARGIN
exceeds_limit(text) == Len(text) > MAX_NOTES_LENGTH - NOTES_SAFETY_MARGIN

always_enough(space) == TRUE

\* if available_space > 100
enough_space(space) == space > 100

\* lines 275-330: the Notes argument of update_answer
updated_notes(current_notes, consolidated_notes, timestamp) ==
    LET start_idx == find_start(current_notes)
        end_idx == find_end(current_notes)
        found == has_section(start_idx, end_idx)
        before == before_section(current_notes, start_idx)
        after == after_section(current_notes, end_idx)
        \* lines 289-297: replace the existing section or append a new one
        spliced ==
            IF found
            THEN before \o new_section(consolidated_notes, timestamp) \o after
            ELSE current_notes \o separator(current_notes)
                    \o new_section(consolidated_notes, timestamp)
        space == available_space(before, after, timestamp)
    IN  IF exceeds_limit(spliced)
        THEN \* lines 306-330
             IF found
             THEN IF enough_space(space)
                  THEN before \o start_marker(timestamp) \o "\n"
                          \o truncated_content(consolidated_notes, space)
                          \o "\n" \o end_marker \o after
                  ELSE before \o start_marker(timestamp) \o "\n"
                          \o TRUNCATED \o "\n" \o end_marker \o after
             ELSE truncated_notes(current_notes, timestamp) \o "\n"
                     \o start_marker(timestamp) \o "\n" \o TRUNCATED \o "\n" \o end_marker
        ELSE spliced

(***************************************************************************)
(* State                                                                   *)
(***************************************************************************)

VARIABLES
    notes,      \* Well-Architected Tool: question id -> Notes of its answer
    call,       \* the latest invocation of update_wellarchitected_notes
    api,        \* number of calls made to each external API
    n_updates,  \* invocations of update_wellarchitected_notes made directly
    S3_BUCKET_NAME, \* lambda_function.py: the environment variable, read at load time
    handler,    \* the module whose lambda_handler runs: "main" or "lambda_function"
    event,      \* the event of the invocation
    pc,         \* where the invocation is: idle, clean, packs, done, raised
    success,    \* clean_all_notes: its success flag
    pillar_i,   \* clean_all_notes: index of the pillar being cleaned
    question_i, \* clean_all_notes: index of the question being cleaned (0: not listed yet)
    pack_i,     \* lambda_handler: index of the conformance pack being processed
    question_rule_mapping, \* process_conformance_pack: the groups, in insertion order
    group_i,    \* process_conformance_pack: index of the group of the second pass (0: first pass not done)
    rules_list, \* process_conformance_pack: the rules get_conformance_pack_details returned
    processed,  \* the packs process_conformance_pack was called for
    resolved,   \* <<pack, question id>> of the groups built by the first passes
    attempted,  \* <<pack, question id>> update_wellarchitected_notes was called for
    failed,     \* <<pack, question id>> whose get_answer or update_answer raised ClientError
    lookups,    \* the calls process_conformance_pack made to the services, in order
    faults,     \* service errors raised so far in the invocation
    response    \* what lambda_handler returned

\* the outcomes of one invocation of update_wellarchitected_notes
Outcomes == {"none", "dry_run", "get_answer_failed", "update_answer_failed", "updated"}

\* update_answer was called (and answered, or raised ClientError)
Wrote(c) == c.outcome \in {"update_answer_failed", "updated"}

NoCall ==
    [question_id |-> "", consolidated_notes |-> "", dry_run |-> TRUE, timestamp |-> "",
     current_notes |-> "", updated_notes |-> "", outcome |-> "none", result |-> TRUE]

NoApi ==
    [list_answers |-> 0, describe_conformance_pack_compliance |-> 0,
     get_compliance_details_by_config_rule |-> 0, get_answer |-> 0,
     update_answer |-> 0, put_object |-> 0]

\* one more call of the API named op
Called(a, op) == [a EXCEPT ![op] = @ + 1]

(***************************************************************************)
(* update_wellarchitected_notes(workload_id, lens_alias, question_id,      *)
(*                              consolidated_notes, dry_run)               *)
(* get_ok / update_ok: whether get_answer / update_answer answer or raise  *)
(* ClientError; timestamp: datetime.now() formatted.                       *)
(***************************************************************************)

never_skips(dry_run) == FALSE

\* line 260: if dry_run: return True, before any call
skips_update(dry_run) == dry_run

update_outcome(dry_run, get_ok, update_ok) ==
    IF skips_update(dry_run) THEN "dry_run"
    ELSE IF ~get_ok THEN "get_answer_failed"
    ELSE IF ~update_ok THEN "update_answer_failed"
    ELSE "updated"

\* the record of the invocation: what it read, what it passed to update_answer,
\* what it returned
update_call(store, question_id, consolidated_notes, dry_run, timestamp, get_ok, update_ok) ==
    LET outcome == update_outcome(dry_run, get_ok, update_ok)
        got == outcome \in {"update_answer_failed", "updated"}
        current_notes == IF got THEN store[question_id] ELSE ""
    IN  [question_id |-> question_id,
         consolidated_notes |-> IF got THEN consolidated_notes ELSE "",
         dry_run |-> dry_run,
         timestamp |-> IF got THEN timestamp ELSE "",
         current_notes |-> current_notes,
         updated_notes |-> IF got
                           THEN updated_notes(current_notes, consolidated_notes, timestamp)
                           ELSE "",
         outcome |-> outcome,
         result |-> outcome \in {"dry_run", "updated"}]

\* the store after the invocation c
store_after(store, c) ==
    IF c.outcome = "updated"
    THEN [store EXCEPT ![c.question_id] = c.updated_notes]
    ELSE store

\* the API counters after the invocation c
api_after(a, c) ==
    IF c.outcome = "dry_run" THEN a
    ELSE IF c.outcome = "get_answer_failed" THEN Called(a, "get_answer")
    ELSE Called(Called(a, "get_answer"), "update_answer")

(***************************************************************************)
(* The workload in the Well-Architected Tool                               *)
(***************************************************************************)

\* clean_all_notes, line 362
pillars ==
    <<"security", "reliability", "costOptimization",
      "operationalExcellence", "performance", "sustainability">>

\* AnswerSummaries of list_answers for a pillar: the question ids, in order
AnswerSummaries(pillar) ==
    CASE pillar = "security" -> <<"identities", "permissions">>
      [] pillar = "reliability" -> <<"backing-up-data">>
      [] pillar = "costOptimization" -> <<"govern-usage">>
      [] pillar = "operationalExcellence" -> <<"priorities">>
      [] OTHER -> <<>>

Range(seq) == {seq[i] : i \in DOMAIN seq}

Questions == UNION {Range(AnswerSummaries(pillars[i])) : i \in DOMAIN pillars}

(***************************************************************************)
(* AWS Config: the conformance packs, their rules and the rules' results   *)
(***************************************************************************)

SECURITY_CONFORMANCE_PACK == "Well-Architected-Security"

RELIABILITY_CONFORMANCE_PACK == "Well-Architected-Reliability"

COST_OPTIMIZATION_CONFORMANCE_PACK == "Well-Architected-Cost-Optimization"

\* PILLAR_MAPPING.items(), in insertion order
PILLAR_MAPPING ==
    << <<SECURITY_CONFORMANCE_PACK, "security">>,
       <<RELIABILITY_CONFORMANCE_PACK, "reliability">>,
       <<COST_OPTIMIZATION_CONFORMANCE_PACK, "costOptimization">> >>

\* lambda_handler, lines 609-613
conformance_packs ==
    <<SECURITY_CONFORMANCE_PACK, RELIABILITY_CONFORMANCE_PACK,
      COST_OPTIMIZATION_CONFORMANCE_PACK>>

\* a value that is None in Python (a missing key read with .get)
None == "<None>"

\* str(v) as an f-string prints it
Str(v) == IF v = None THEN "None" ELSE v

\* bool(v) of a string or None
Truthy(v) == v # None /\ v # ""

Rule(name, compliance) == [ConfigRuleName |-> name, ComplianceType |-> compliance]

Result(type, id, compliance) ==
    [ResourceType |-> type, ResourceId |-> id, ComplianceType |-> compliance]

\* ConformancePackRuleComplianceList of a pack, in the order the service lists it
PackRules(pack) ==
    CASE pack = SECURITY_CONFORMANCE_PACK ->
            << Rule("SEC02-identities_bp_mfa", "NON_COMPLIANT"),
               Rule("SEC03-permissions_bp_root", "COMPLIANT"),
               Rule("SEC10-incident_bp_plan", "COMPLIANT"),
               Rule("SEC02-identities_bp_keys", "NON_COMPLIANT") >>
      [] pack = RELIABILITY_CONFORMANCE_PACK ->
            << Rule("REL09-backing-up-data_bp_plan", "COMPLIANT") >>
      [] pack = COST_OPTIMIZATION_CONFORMANCE_PACK ->
            << Rule("COST02-govern-usage_bp_budget", "NON_COMPLIANT") >>
      [] OTHER -> <<>>

\* EvaluationResults of a rule, in the order the service lists them
EvaluationResults(rule_name) ==
    CASE rule_name = "SEC02-identities_bp_mfa" ->
            << Result("AWS::IAM::User", "bob", "NON_COMPLIANT"),
               Result("AWS::IAM::User", "eve", "COMPLIANT"),
               Result("AWS::IAM::Role", "ops", "COMPLIANT") >>
      [] rule_name = "SEC03-permissions_bp_root" ->
            << Result("AWS::::Account", "123456789012", "COMPLIANT") >>
      [] rule_name = "SEC02-identities_bp_keys" ->
            << Result(None, "key-1", "NON_COMPLIANT") >>
      [] rule_name = "REL09-backing-up-data_bp_plan" ->
            << Result("AWS::RDS::DBInstance", "db-1", "COMPLIANT") >>
      [] rule_name = "COST02-govern-usage_bp_budget" ->
            << Result("AWS::::Account", "123456789012", "NON_COMPLIANT") >>
      [] rule_name = "SEC02-identities_bp_rotation" ->
            << Result("AWS::IAM::AccessKey", "key-2", "COMPLIANT"),
               Result("AWS::IAM::User", "bob", "NON_COMPLIANT") >>
      [] OTHER -> <<>>

(***************************************************************************)
(* Renders (lines 56-158 and 488-530)                                      *)
(***************************************************************************)

\* ''.join(strings)
RECURSIVE Join(_)
Join(strings) == IF strings = <<>> THEN "" ELSE Head(strings) \o Join(Tail(strings))

\* the keys of resource_counts, in insertion order: the resource types of the
\* results, without the missing ones, each at its first occurrence
RECURSIVE resource_types(_)
resource_types(evaluation_results) ==
    IF evaluation_results = <<>> THEN <<>>
    ELSE LET front == SubSeq(evaluation_results, 1, Len(evaluation_results) - 1)
             type == evaluation_results[Len(evaluation_results)].ResourceType
             types == resource_types(front)
         IN  IF Truthy(type) /\ type \notin Range(types)
             THEN Append(types, type) ELSE types

\* a count that takes the resources with the same id as one
distinct_count(evaluation_results, resource_type, compliance) ==
    Cardinality({evaluation_results[i].ResourceId :
                    i \in {j \in DOMAIN evaluation_results :
                              /\ evaluation_results[j].ResourceType = resource_type
                              /\ evaluation_results[j].ComplianceType = compliance}})

\* count_resources_by_type(evaluation_results)[resource_type][compliance]
resource_count(evaluation_results, resource_type, compliance) ==
    Cardinality({i \in DOMAIN evaluation_results :
                    /\ evaluation_results[i].ResourceType = resource_type
                    /\ evaluation_results[i].ComplianceType = compliance})

\* the lines f"- {resource_type}: {count} resources\n" of the types counted
\* above zero
type_lines(evaluation_results, compliance) ==
    LET types == resource_types(evaluation_results)
        line(t) == IF resource_count(evaluation_results, t, compliance) > 0
                   THEN "- " \o t \o ": "
                          \o ToString(resource_count(evaluation_results, t, compliance))
                          \o " resources\n"
                   ELSE ""
    IN  Join([i \in DOMAIN types |-> line(types[i])])

\* generate_summarized_notes_for_rule: "" stands for None (both are skipped)
generate_summarized_notes_for_rule(rule_data) ==
    LET results == rule_data.evaluation_results
        non_compliant == type_lines(results, "NON_COMPLIANT")
        compliant == type_lines(results, "COMPLIANT")
    IN  IF results = <<>> THEN ""
        ELSE IF resource_types(results) = <<>> THEN ""
        ELSE "**" \o rule_data.rule_name \o "**\n"
                \o (IF non_compliant # ""
                    THEN "[!] Non-compliant:\n" \o non_compliant \o "\n" ELSE "")
                \o (IF compliant # ""
                    THEN "[+] Compliant:\n" \o compliant \o "\n" ELSE "")

\* generate_summarized_notes_for_question
generate_summarized_notes_for_question(rules_data) ==
    Join([i \in DOMAIN rules_data |-> generate_summarized_notes_for_rule(rules_data[i])])

\* f"{resource_type}: {resource_id}" of the results with the given compliance
resource_infos(evaluation_results, compliance) ==
    LET picked == SelectSeq(evaluation_results,
                            LAMBDA r : r.ComplianceType = compliance)
    IN  [i \in DOMAIN picked |->
            Str(picked[i].ResourceType) \o ": " \o Str(picked[i].ResourceId)]

\* a render that has no 'if not evaluation_results: continue'
header_always(rule_data) ==
    LET results == rule_data.evaluation_results
        compliant_resources == resource_infos(results, "COMPLIANT")
        non_compliant_resources == resource_infos(results, "NON_COMPLIANT")
    IN  "**" \o rule_data.rule_name \o "**\n"
            \o (IF non_compliant_resources # <<>>
                THEN "[!] Non-compliant:\n"
                        \o Join([i \in DOMAIN non_compliant_resources |->
                                    "- " \o non_compliant_resources[i] \o "\n"])
                        \o "\n"
                ELSE "")
            \o (IF compliant_resources # <<>>
                THEN "[+] " \o ToString(Len(compliant_resources))
                        \o " compliant resources\n\n"
                ELSE "")

\* lines 491-528: the detailed notes of one rule
detailed_notes_for_rule(rule_data) ==
    LET results == rule_data.evaluation_results
        compliant_resources == resource_infos(results, "COMPLIANT")
        non_compliant_resources == resource_infos(results, "NON_COMPLIANT")
    IN  IF results = <<>> THEN ""
        ELSE "**" \o rule_data.rule_name \o "**\n"
                \o (IF non_compliant_resources # <<>>
                    THEN "[!] Non-compliant:\n"
                            \o Join([i \in DOMAIN non_compliant_resources |->
                                        "- " \o non_compliant_resources[i] \o "\n"])
                            \o "\n"
                    ELSE "")
                \o (IF compliant_resources # <<>>
                    THEN "[+] " \o ToString(Len(compliant_resources))
                            \o " compliant resources\n\n"
                    ELSE "")

\* lines 488-530: detailed_notes of a question
detailed_notes(rules_data) ==
    Join([i \in DOMAIN rules_data |-> detailed_notes_for_rule(rules_data[i])])

(***************************************************************************)
(* The clock                                                               *)
(***************************************************************************)

\* datetime.now().strftime("%Y-%m-%d %H:%M:%S") of earlier and of present runs
T0 == "2026-11-01 09:00:00"

T1 == "2026-11-02 10:00:00"

T2 == "2026-11-02 10:00:07"

Timestamps == {T1, T2}

\* a section left by an earlier run
OldSection == start_marker(T0) \o "\n**rule**\n[+] 3 compliant resources\n\n\n" \o end_marker

(***************************************************************************)
(* process_conformance_pack: the first pass (lines 418-484)                *)
(***************************************************************************)

\* lines 421-426: the pillar of the first PILLAR_MAPPING key found in the name
pillar_of(conformance_pack_name) ==
    LET hits == {i \in DOMAIN PILLAR_MAPPING :
                    Contains(conformance_pack_name, PILLAR_MAPPING[i][1])}
    IN  IF hits = {} THEN None
        ELSE PILLAR_MAPPING[CHOOSE i \in hits : \A j \in hits : i <= j][2]

\* get_question_mapping: the keys of question_ids in insertion order; {} when
\* list_answers raises ClientError
get_question_mapping(pillar, list_ok) ==
    IF list_ok
    THEN SelectSeq(AnswerSummaries(pillar), LAMBDA question_id : Truthy(question_id))
    ELSE <<>>

\* get_conformance_pack_details: [] when the service raises
get_conformance_pack_details(conformance_pack_name, describe_ok) ==
    IF describe_ok THEN PackRules(conformance_pack_name) ELSE <<>>

\* get_rule_details: Limit=100
Limit == 100

\* a lookup that answers although the service raised
details_despite_error(rule_name, details_ok) ==
    SubSeq(EvaluationResults(rule_name), 1,
           Min2(Limit, Len(EvaluationResults(rule_name))))

\* get_rule_details: the first page of results; [] when the service raises ClientError
get_rule_details(rule_name, details_ok) ==
    IF details_ok
    THEN SubSeq(EvaluationResults(rule_name), 1,
                Min2(Limit, Len(EvaluationResults(rule_name))))
    ELSE <<>>

\* question_id.split('.')
RECURSIVE SplitDots(_)
SplitDots(text) ==
    LET i == Find(text, ".")
    IN  IF i < 0 THEN <<text>>
        ELSE <<SliceTo(text, i)>> \o SplitDots(SliceFrom(text, i + 1))

\* the element of seq at the smallest index in hits, None without hits
First(seq, hits) ==
    IF hits = {} THEN None ELSE seq[CHOOSE i \in hits : \A j \in hits : i <= j]

\* lines 452-457: the first question id that appears in the rule name
direct_match(question_ids, rule_name) ==
    First(question_ids,
          {i \in DOMAIN question_ids : Contains(rule_name, question_ids[i])})

\* a fallback that takes a part of any length
short_part_match(question_ids, rule_name) ==
    First(question_ids,
          {i \in DOMAIN question_ids :
              \E part \in Range(SplitDots(question_ids[i])) :
                  part # "" /\ Contains(rule_name, part)})

\* lines 461-470: the first question id with a part (split on '.') of more than 3
\* characters that appears in the rule name
partial_match(question_ids, rule_name) ==
    First(question_ids,
          {i \in DOMAIN question_ids :
              \E part \in Range(SplitDots(question_ids[i])) :
                  part # "" /\ Len(part) > 3 /\ Contains(rule_name, part)})

no_match(question_ids, rule_name) == None

\* a grouping that opens a new group for every rule
new_group(mapping, question_id, rule_data) ==
    Append(mapping, [question_id |-> question_id, rules_data |-> <<rule_data>>])

\* a grouping that puts the newest rule of a question first
prepend_rule(mapping, question_id, rule_data) ==
    IF \E i \in DOMAIN mapping : mapping[i].question_id = question_id
    THEN [i \in DOMAIN mapping |->
            IF mapping[i].question_id = question_id
            THEN [mapping[i] EXCEPT !.rules_data = <<rule_data>> \o @]
            ELSE mapping[i]]
    ELSE Append(mapping, [question_id |-> question_id, rules_data |-> <<rule_data>>])

\* lines 450-474: matching_question_id, None when the rule is dropped
matching_question_id(question_ids, rule_name) ==
    IF direct_match(question_ids, rule_name) # None
    THEN direct_match(question_ids, rule_name)
    ELSE partial_match(question_ids, rule_name)

\* question_rule_mapping[question_id].append(rule_data)
append_rule(mapping, question_id, rule_data) ==
    IF \E i \in DOMAIN mapping : mapping[i].question_id = question_id
    THEN [i \in DOMAIN mapping |->
            IF mapping[i].question_id = question_id
            THEN [mapping[i] EXCEPT !.rules_data = Append(@, rule_data)]
            ELSE mapping[i]]
    ELSE Append(mapping, [question_id |-> question_id, rules_data |-> <<rule_data>>])

\* lines 446-484: the groups built from the rules, in insertion order;
\* failing: the rules whose get_rule_details raises ClientError
RECURSIVE first_pass(_, _, _)
first_pass(question_ids, rules, failing) ==
    IF rules = <<>> THEN <<>>
    ELSE LET rule == rules[Len(rules)]
             rule_name == rule.ConfigRuleName
             before == first_pass(question_ids, SubSeq(rules, 1, Len(rules) - 1), failing)
             question_id == matching_question_id(question_ids, rule_name)
         IN  IF question_id = None THEN before
             ELSE append_rule(before, question_id,
                              [rule_name |-> rule_name,
                               compliance_type |-> rule.ComplianceType,
                               evaluation_results |->
                                   get_rule_details(rule_name, rule_name \notin failing)])

\* the names of the rules that the first pass matches to a question
matched_rules(question_ids, rules) ==
    {rules[i].ConfigRuleName : i \in {j \in DOMAIN rules :
        matching_question_id(question_ids, rules[j].ConfigRuleName) # None}}

(***************************************************************************)
(* lambda_handler (main.py lines 565-626, lambda_function.py lines 58-136) *)
(***************************************************************************)

\* event.get(key, default): keys holds the keys present in the event
event_get(ev, key, default) == IF key \in ev.keys THEN ev[key] ELSE default

\* workload_id = event.get('workload_id')
event_workload_id(ev) == event_get(ev, "workload_id", None)

\* dry_run = event.get('dry_run', True)
event_dry_run(ev) == event_get(ev, "dry_run", TRUE)

\* clean_notes = event.get('clean_notes', False)
event_clean_notes(ev) == event_get(ev, "clean_notes", FALSE)

\* generate_report = event.get('generate_report', True)
event_generate_report(ev) == event_get(ev, "generate_report", TRUE)

workload_id_is_none(workload_id) == workload_id = None

\* if not workload_id
missing_workload_id(workload_id) == ~Truthy(workload_id)

never_aborts(clean_ok) == FALSE

\* if not clean_all_notes(workload_id, dry_run): return the 500 response
aborts_after_clean(clean_ok) == ~clean_ok

update_propagates(outcome) == outcome \in {"get_answer_failed", "update_answer_failed"}

\* update_wellarchitected_notes catches ClientError (lines 342-344) and returns
\* False: no outcome propagates an exception to its caller
update_raises(outcome) == FALSE

\* if generate_report and S3_BUCKET_NAME
uploads_report(generate_report, bucket_name, dry_run) ==
    generate_report /\ bucket_name # ""

NoResponse == [statusCode |-> 0]

MissingWorkloadResponse ==
    [statusCode |-> 400, status |-> "error",
     message |-> "No workload_id provided in the event"]

CleanFailedResponse ==
    [statusCode |-> 500, status |-> "error", message |-> "Failed to clean notes"]

SuccessResponse(dry_run, report_url) ==
    [statusCode |-> 200, status |-> "success",
     message |-> "Well-Architected Tool updated successfully",
     dry_run |-> dry_run, report_url |-> report_url]

\* the key of the report object, with the timestamp of the upload
ReportKey == "Reports/well_architected_compliance_report_20261102-100000.html"

Events ==
    {[keys |-> keys,
      workload_id |-> IF "workload_id" \in keys THEN w ELSE "",
      dry_run |-> IF "dry_run" \in keys THEN d ELSE TRUE,
      clean_notes |-> IF "clean_notes" \in keys THEN c ELSE FALSE,
      generate_report |-> IF "generate_report" \in keys THEN g ELSE TRUE] :
        keys \in SUBSET {"workload_id", "dry_run", "clean_notes", "generate_report"},
        w \in {"", "wl-1"}, d \in BOOLEAN, c \in BOOLEAN, g \in BOOLEAN}

VARIABLES
    parsed_name, \* wa_report_generator: the rule_name passed to extract_question_id
    extracted,  \* wa_report_generator: what extract_question_id returned
    evaluations, \* compliance checks: the module-level 'evaluations' list of each module that has one
    invoked,    \* compliance checks: the latest invocation of a lambda_handler
    n_invocations, \* compliance checks: invocations served by the loaded modules
    fetching,   \* pagination: the function called, "" when none
    service_items, \* pagination: everything the service holds for the request, in its order
    requests,   \* pagination: the NextToken passed in each request made, 0 for none
    next_token, \* get_conformance_pack_details: next_token, 0 for None
    fetched,    \* get_conformance_pack_details: the local rules_list
    fetch_pc,   \* pagination: "idle", "request", "returned" or "raised"
    fetch_result, \* pagination: what the function returned
    applied,    \* the function applied to the argument, one of AppliedFunctions
    argument,   \* what the function is applied to
    result      \* what the function returned, NotApplied before it is applied

\* no call of extract_question_id yet
NotExtracted == <<"", "">>

parsing == <<parsed_name, extracted>>

ParsingIdle == parsed_name = "" /\ extracted = NotExtracted

\* the modules that keep their 'evaluations' list at module level
ModulesWithList ==
    {"cost02_account_structure_implemented",
     "cost03_add_organization_information_to_cost_and_usage"}

\* no invocation of a compliance check yet
NotInvoked ==
    [handler |-> "", accountId |-> "", world |-> <<>>, compliance_type |-> "",
     Evaluations |-> <<>>, put |-> FALSE, completed |-> FALSE]

checks == <<evaluations, invoked, n_invocations>>

\* the modules as loaded: the lists are empty
ChecksIdle ==
    /\ evaluations = [m \in ModulesWithList |-> <<>>]
    /\ invoked = NotInvoked
    /\ n_invocations = 0

pagination ==
    <<fetching, service_items, requests, next_token, fetched, fetch_pc, fetch_result>>

\* no listing function called
PaginationIdle ==
    /\ fetching = ""
    /\ service_items = <<>>
    /\ requests = <<>>
    /\ next_token = 0
    /\ fetched = <<>>
    /\ fetch_pc = "idle"
    /\ fetch_result = <<>>

\* no value returned yet
NotApplied == [returned |-> FALSE, value |-> <<>>]

\* the value a function returned
Returns(value) == [returned |-> TRUE, value |-> value]

applying == <<applied, argument, result>>

\* no function applied on its own
ApplyingIdle == applied = "" /\ argument = <<>> /\ result = NotApplied

\* the state of the functions called apart from the updater
functions == <<parsing, checks, pagination, applying>>

FunctionsIdle == ParsingIdle /\ ChecksIdle /\ PaginationIdle /\ ApplyingIdle

updater == <<notes, call, api>>

direct == <<n_updates, functions>>

invocation == <<S3_BUCKET_NAME, handler, event>>

cleaning == <<success, pillar_i, question_i>>

packs == <<pack_i, question_rule_mapping, group_i, rules_list>>

observed == <<processed, resolved, attempted, failed, lookups>>

\* the service errors one invocation meets are at most MaxFaults
MaxFaults == 1

\* datetime.now().strftime("%Y-%m-%d %H:%M:%S") during the invocation
Now == T1

Fails(ok) == IF ok THEN 0 ELSE 1

\* the service errors one call of update_wellarchitected_notes meets
update_faults(dry_run, get_ok, update_ok) ==
    IF skips_update(dry_run) THEN 0 ELSE IF ~get_ok THEN 1 ELSE Fails(update_ok)

vars ==
    <<notes, call, api, n_updates, S3_BUCKET_NAME, handler, event, pc, success, pillar_i,
      question_i, pack_i, question_rule_mapping, group_i, rules_list, processed, resolved,
      attempted, failed, lookups, faults, response, functions>>

\* lines 578-606 up to the first external call: the event is read and validated
Invoke ==
    /\ pc = "idle"
    /\ \E h \in {"main", "lambda_function"}, ev \in Events :
        /\ (h = "main" => "generate_report" \notin ev.keys)
        /\ handler' = h
        /\ event' = ev
        /\ IF missing_workload_id(event_workload_id(ev))
           THEN pc' = "done" /\ response' = MissingWorkloadResponse
           ELSE /\ pc' = IF event_clean_notes(ev) THEN "clean" ELSE "packs"
                /\ response' = response
    /\ UNCHANGED <<updater, direct, S3_BUCKET_NAME, cleaning, packs, observed, faults>>

\* clean_all_notes, lines 364-377 and 395-397: list_answers for the next pillar
CleanListAnswers ==
    /\ pc = "clean"
    /\ pillar_i <= Len(pillars)
    /\ question_i = 0
    /\ \E list_ok \in BOOLEAN :
        /\ faults + Fails(list_ok) <= MaxFaults
        /\ faults' = faults + Fails(list_ok)
        /\ api' = Called(api, "list_answers")
        /\ success' = (success /\ list_ok)
        /\ IF list_ok /\ AnswerSummaries(pillars[pillar_i]) # <<>>
           THEN pillar_i' = pillar_i /\ question_i' = 1
           ELSE pillar_i' = pillar_i + 1 /\ question_i' = 0
    /\ UNCHANGED <<notes, call, direct, invocation, pc, packs, observed, response>>

\* clean_all_notes, lines 379-393: the next question is updated with empty notes
CleanQuestion ==
    /\ pc = "clean"
    /\ pillar_i <= Len(pillars)
    /\ question_i >= 1
    /\ \E timestamp \in {Now}, get_ok \in BOOLEAN, update_ok \in BOOLEAN :
        LET questions == AnswerSummaries(pillars[pillar_i])
            c == update_call(notes, questions[question_i], "", event_dry_run(event),
                             timestamp, get_ok, update_ok)
            n == update_faults(event_dry_run(event), get_ok, update_ok)
        IN  /\ faults + n <= MaxFaults
            /\ faults' = faults + n
            /\ call' = c
            /\ notes' = store_after(notes, c)
            /\ api' = api_after(api, c)
            /\ success' = (success /\ c.result)
            /\ IF update_raises(c.outcome)
               THEN pc' = "raised" /\ UNCHANGED <<pillar_i, question_i>>
               ELSE /\ pc' = pc
                    /\ IF question_i < Len(questions)
                       THEN pillar_i' = pillar_i /\ question_i' = question_i + 1
                       ELSE pillar_i' = pillar_i + 1 /\ question_i' = 0
    /\ UNCHANGED <<direct, invocation, packs, observed, response>>

\* clean_all_notes returns; lambda_handler lines 597-606
CleanReturn ==
    /\ pc = "clean"
    /\ pillar_i > Len(pillars)
    /\ IF aborts_after_clean(success)
       THEN pc' = "done" /\ response' = CleanFailedResponse
       ELSE pc' = "packs" /\ response' = response
    /\ UNCHANGED <<updater, direct, invocation, cleaning, packs, observed, faults>>

\* one call to a service: the pass (pack) it was made in, the operation, what it
\* was made for, and whether the service answered
Lookup(pack, op, subject, ok) == [pack |-> pack, op |-> op, subject |-> subject, ok |-> ok]

\* lines 440-477: describe_conformance_pack_compliance, then one
\* get_compliance_details_by_config_rule per matched rule, in the order of the rules
config_lookups(pack, conformance_pack_name, describe_ok, question_ids, rules, failing) ==
    LET matched == SelectSeq(rules, LAMBDA rule :
                       matching_question_id(question_ids, rule.ConfigRuleName) # None)
    IN  <<Lookup(pack, "describe_conformance_pack_compliance", conformance_pack_name,
                 describe_ok)>>
           \o [i \in DOMAIN matched |->
                 Lookup(pack, "get_compliance_details_by_config_rule",
                        matched[i].ConfigRuleName, matched[i].ConfigRuleName \notin failing)]

\* lines 534-563 and update_wellarchitected_notes: the get_answer of the length check,
\* then the get_answer and the update_answer of the update
answer_lookups(pack, question_id, check_ok, outcome) ==
    <<Lookup(pack, "get_answer", question_id, check_ok)>>
       \o (CASE outcome = "get_answer_failed" ->
                  <<Lookup(pack, "get_answer", question_id, FALSE)>>
              [] outcome = "update_answer_failed" ->
                  <<Lookup(pack, "get_answer", question_id, TRUE),
                    Lookup(pack, "update_answer", question_id, FALSE)>>
              [] outcome = "updated" ->
                  <<Lookup(pack, "get_answer", question_id, TRUE),
                    Lookup(pack, "update_answer", question_id, TRUE)>>
              [] OTHER -> <<>>)

\* process_conformance_pack, lines 418-484: the pillar, the question ids, the rules
\* and the first pass
StartPack ==
    /\ pc = "packs"
    /\ pack_i <= Len(conformance_packs)
    /\ group_i = 0
    /\ LET conformance_pack_name == conformance_packs[pack_i]
           pillar == pillar_of(conformance_pack_name)
       IN  /\ processed' = processed \cup {conformance_pack_name}
           /\ IF pillar = None
              THEN /\ pack_i' = pack_i + 1
                   /\ UNCHANGED <<api, question_rule_mapping, group_i, rules_list, resolved,
                                   lookups, faults>>
              ELSE \E list_ok \in BOOLEAN :
                    LET question_ids == get_question_mapping(pillar, list_ok)
                    IN  IF question_ids = <<>>
                        THEN /\ faults + Fails(list_ok) <= MaxFaults
                             /\ faults' = faults + Fails(list_ok)
                             /\ api' = Called(api, "list_answers")
                             /\ pack_i' = pack_i + 1
                             /\ lookups' = Append(lookups,
                                                  Lookup(pack_i, "list_answers", pillar, list_ok))
                             /\ UNCHANGED <<question_rule_mapping, group_i, rules_list,
                                             resolved>>
                        ELSE \E describe_ok \in BOOLEAN :
                              LET rules == get_conformance_pack_details(
                                               conformance_pack_name, describe_ok)
                                  matched == matched_rules(question_ids, rules)
                              IN  \E failing \in SUBSET matched :
                                    LET mapping == first_pass(question_ids, rules, failing)
                                        n == Fails(describe_ok) + Cardinality(failing)
                                    IN  /\ faults + n <= MaxFaults
                                        /\ faults' = faults + n
                                        /\ api' = [Called(Called(api, "list_answers"),
                                                     "describe_conformance_pack_compliance")
                                              EXCEPT !.get_compliance_details_by_config_rule =
                                                         @ + Cardinality(matched)]
                                        /\ lookups' =
                                              Append(lookups, Lookup(pack_i, "list_answers",
                                                                     pillar, list_ok))
                                              \o config_lookups(pack_i, conformance_pack_name,
                                                                describe_ok, question_ids,
                                                                rules, failing)
                                        /\ question_rule_mapping' = mapping
                                        /\ rules_list' = rules
                                        /\ group_i' = 1
                                        /\ pack_i' = pack_i
                                        /\ resolved' = resolved \cup
                                              {<<pack_i, mapping[i].question_id>> :
                                                  i \in DOMAIN mapping}
    /\ UNCHANGED <<notes, call, direct, invocation, pc, cleaning, attempted, failed,
                   response>>

\* line 548: estimated_length
estimated_length(current_notes, detailed, timestamp) ==
    Len(current_notes) + Len(detailed) + Len(start_marker(timestamp)) + Len(end_marker) + 20

\* lines 532-563: the content passed to update_wellarchitected_notes; check_ok: whether
\* the get_answer of line 535 answers
chosen_notes(rules_data, current_notes, timestamp, check_ok) ==
    IF ~check_ok THEN generate_summarized_notes_for_question(rules_data)
    ELSE IF estimated_length(current_notes, detailed_notes(rules_data), timestamp)
                > MAX_NOTES_LENGTH - NOTES_SAFETY_MARGIN
         THEN generate_summarized_notes_for_question(rules_data)
         ELSE detailed_notes(rules_data)

\* process_conformance_pack, lines 487-563: one question of the second pass
ProcessQuestion ==
    /\ pc = "packs"
    /\ group_i >= 1
    /\ group_i <= Len(question_rule_mapping)
    /\ \E timestamp \in {Now}, check_ok \in BOOLEAN, get_ok \in BOOLEAN,
          update_ok \in BOOLEAN :
        LET question_id == question_rule_mapping[group_i].question_id
            rules_data == question_rule_mapping[group_i].rules_data
            content == chosen_notes(rules_data, notes[question_id], timestamp, check_ok)
            c == update_call(notes, question_id, content, event_dry_run(event),
                             timestamp, get_ok, update_ok)
            n == Fails(check_ok) + update_faults(event_dry_run(event), get_ok, update_ok)
        IN  /\ faults + n <= MaxFaults
            /\ faults' = faults + n
            /\ call' = c
            /\ notes' = store_after(notes, c)
            /\ api' = api_after(Called(api, "get_answer"), c)
            /\ attempted' = attempted \cup {<<pack_i, question_id>>}
            /\ lookups' = lookups \o answer_lookups(pack_i, question_id, check_ok, c.outcome)
            /\ failed' = IF ~check_ok \/ c.outcome \in {"get_answer_failed",
                                                         "update_answer_failed"}
                         THEN failed \cup {<<pack_i, question_id>>} ELSE failed
            /\ IF update_raises(c.outcome)
               THEN pc' = "raised" /\ group_i' = group_i
               ELSE pc' = pc /\ group_i' = group_i + 1
    /\ UNCHANGED <<direct, invocation, cleaning, pack_i, question_rule_mapping, rules_list,
                   processed, resolved, response>>

\* process_conformance_pack returns; lambda_handler lines 615-616 go to the next pack
EndPack ==
    /\ pc = "packs"
    /\ pack_i <= Len(conformance_packs)
    /\ group_i > Len(question_rule_mapping)
    /\ pack_i' = pack_i + 1
    /\ group_i' = 0
    /\ question_rule_mapping' = <<>>
    /\ rules_list' = <<>>
    /\ UNCHANGED <<updater, direct, invocation, pc, cleaning, observed, faults, response>>

\* html_report_generator.upload_report_to_s3: "" without a bucket name; else
\* put_object, and the URL of the object, or "" when put_object raises
upload_report_to_s3(bucket_name, put_ok) ==
    IF bucket_name = "" THEN [put |-> FALSE, url |-> ""]
    ELSE [put |-> TRUE,
          url |-> IF put_ok THEN "s3://" \o bucket_name \o "/" \o ReportKey ELSE ""]

\* report_generator.generate_and_upload_report(..., bucket_name, html_generator,
\* s3_uploader): renders the report with html_generator and returns what
\* s3_uploader(html, bucket_name) returns
generate_and_upload_report(bucket_name, put_ok) == upload_report_to_s3(bucket_name, put_ok)

\* main.py lines 618-626: the success response
ReturnMain ==
    /\ pc = "packs"
    /\ pack_i > Len(conformance_packs)
    /\ handler = "main"
    /\ pc' = "done"
    /\ response' = SuccessResponse(event_dry_run(event), "")
    /\ UNCHANGED <<updater, direct, invocation, cleaning, packs, observed, faults>>

\* lambda_function.py lines 114-136: the report and the success response
ReportAndReturn ==
    /\ pc = "packs"
    /\ pack_i > Len(conformance_packs)
    /\ handler = "lambda_function"
    /\ pc' = "done"
    /\ IF uploads_report(event_generate_report(event), S3_BUCKET_NAME, event_dry_run(event))
       THEN \E put_ok \in BOOLEAN :
               LET report == generate_and_upload_report(S3_BUCKET_NAME, put_ok)
                   n == IF report.put THEN Fails(put_ok) ELSE 0
               IN  /\ faults + n <= MaxFaults
                   /\ faults' = faults + n
                   /\ api' = IF report.put THEN Called(api, "put_object") ELSE api
                   /\ response' = SuccessResponse(event_dry_run(event), report.url)
       ELSE /\ api' = api
            /\ faults' = faults
            /\ response' = SuccessResponse(event_dry_run(event), "")
    /\ UNCHANGED <<notes, call, direct, invocation, cleaning, packs, observed>>

\* the notes the questions hold when the updater is invoked
\* a section of 1900 characters written by an earlier run
LongSection == start_marker(T0) \o "\n" \o Rep("a", 1900) \o "\n" \o end_marker

HandlerNotes ==
    {"", "user text", "user text\n\n" \o OldSection, "user text\n\n" \o LongSection}

HandlerIdle ==
    /\ handler = "main"
    /\ event = [keys |-> {}, workload_id |-> "", dry_run |-> TRUE,
                clean_notes |-> FALSE, generate_report |-> TRUE]
    /\ pc = "idle"
    /\ success = TRUE
    /\ pillar_i = 1
    /\ question_i = 0
    /\ pack_i = 1
    /\ question_rule_mapping = <<>>
    /\ group_i = 0
    /\ rules_list = <<>>
    /\ processed = {}
    /\ resolved = {}
    /\ attempted = {}
    /\ failed = {}
    /\ lookups = <<>>
    /\ faults = 0
    /\ response = NoResponse

Init ==
    /\ \E n \in HandlerNotes : notes = [q \in Questions |-> n]
    /\ call = NoCall
    /\ api = NoApi
    /\ n_updates = 0
    /\ S3_BUCKET_NAME \in {"", "wa-reports"}
    /\ HandlerIdle
    /\ FunctionsIdle

Next ==
    \/ Invoke
    \/ CleanListAnswers
    \/ CleanQuestion
    \/ CleanReturn
    \/ StartPack
    \/ ProcessQuestion
    \/ EndPack
    \/ ReturnMain
    \/ ReportAndReturn

Spec == Init /\ [][Next]_vars

(***************************************************************************)
(* SpecUpdate: update_wellarchitected_notes called on one question, on all *)
(* kinds of current notes and contents                                     *)
(***************************************************************************)

\* at most this many successive invocations
MaxUpdates == 2

FocusQuestion == "identities"

\* the shortest text the code takes for a section
MinSection == START_PREFIX \o end_marker

\* current notes: user text of n characters
UserText(n) == Rep("u", n)

\* the current notes the updates start from (all of length <= MAX_NOTES_LENGTH):
\* no section; a section with little text around it; a section with so much text
\* around it that 101, 100, 39 and 7 characters are left for the content; stray markers
NotesInputs ==
    { "",
      "user text",
      UserText(safe_length(T1)),
      UserText(safe_length(T1) + 1),
      "before\n" \o OldSection \o "\nafter",
      UserText(1500) \o OldSection \o UserText(406),
      UserText(1500) \o OldSection \o UserText(407),
      UserText(1900) \o OldSection \o UserText(68),
      UserText(2000) \o MinSection \o UserText(60),
      end_marker \o "x",
      "a " \o end_marker \o " b " \o START_PREFIX \o " c",
      START_PREFIX \o "draft" }

\* the consolidated notes passed in
ContentInputs ==
    { "",
      "**rule**\n[!] Non-compliant:\n- AWS::IAM::User: bob\n\n",
      Rep("a", 150),
      Rep("a", 2100),
      "x" \o end_marker \o "y" }

\* a direct invocation
DirectUpdate(question_id, consolidated_notes, dry_run, timestamp, get_ok, update_ok) ==
    LET c == update_call(notes, question_id, consolidated_notes, dry_run, timestamp,
                         get_ok, update_ok)
    IN  /\ n_updates < MaxUpdates
        /\ call' = c
        /\ notes' = store_after(notes, c)
        /\ api' = api_after(api, c)
        /\ n_updates' = n_updates + 1
        /\ UNCHANGED <<invocation, pc, cleaning, packs, observed, faults, response,
                       functions>>

InitUpdate ==
    /\ \E n \in NotesInputs :
          notes = [q \in Questions |-> IF q = FocusQuestion THEN n ELSE ""]
    /\ call = NoCall
    /\ api = NoApi
    /\ n_updates = 0
    /\ S3_BUCKET_NAME = ""
    /\ HandlerIdle
    /\ FunctionsIdle

\* dry_run=True: returns before any call
DryRunUpdate ==
    DirectUpdate(FocusQuestion, "", TRUE, "", TRUE, TRUE)

\* get_answer raises ClientError
FailedRead ==
    DirectUpdate(FocusQuestion, "", FALSE, "", FALSE, TRUE)

\* get_answer answers; update_answer answers or raises ClientError
ReadAndWrite ==
    \E consolidated_notes \in ContentInputs, timestamp \in Timestamps, update_ok \in BOOLEAN :
        DirectUpdate(FocusQuestion, consolidated_notes, FALSE, timestamp, TRUE, update_ok)

NextUpdate == DryRunUpdate \/ FailedRead \/ ReadAndWrite

SpecUpdate == InitUpdate /\ [][NextUpdate]_vars

(***************************************************************************)
(* wa_report_generator: extract_question_id (lines 116-166)                *)
(***************************************************************************)

LowerCase == "abcdefghijklmnopqrstuvwxyz"

UpperCase == "ABCDEFGHIJKLMNOPQRSTUVWXYZ"

Digits == "0123456789"

\* the character of text at index i (from 0), "" past the end
CharAt(text, i) == Sub(text, i, Min2(i + 1, Len(text)))

\* [A-Za-z]
IsLetter(c) == c # "" /\ (Contains(LowerCase, c) \/ Contains(UpperCase, c))

\* \d
IsDigit(c) == c # "" /\ Contains(Digits, c)

\* [a-z0-9-]
IsIdChar(c) == c # "" /\ (Contains(LowerCase, c) \/ Contains(Digits, c) \/ c = "-")

\* c.upper() of one character
UpperChar(c) ==
    IF c # "" /\ Contains(LowerCase, c)
    THEN CharAt(UpperCase, Find(LowerCase, c))
    ELSE c

\* c.lower() of one character
LowerChar(c) ==
    IF c # "" /\ Contains(UpperCase, c)
    THEN CharAt(LowerCase, Find(UpperCase, c))
    ELSE c

RECURSIVE upper(_)
\* text.upper()
upper(text) ==
    IF text = "" THEN ""
    ELSE UpperChar(CharAt(text, 0)) \o upper(SliceFrom(text, 1))

RECURSIVE lower(_)
\* text.lower()
lower(text) ==
    IF text = "" THEN ""
    ELSE LowerChar(CharAt(text, 0)) \o lower(SliceFrom(text, 1))

\* [A-Za-z]{n}\d{2} matches text at index i
NumberAt(text, i, n) ==
    /\ i + n + 2 <= Len(text)
    /\ \A k \in 0..(n - 1) : IsLetter(CharAt(text, i + k))
    /\ IsDigit(CharAt(text, i + n))
    /\ IsDigit(CharAt(text, i + n + 1))

\* re.search(r'([A-Za-z]{3,4}\d{2})', rule_name, re.IGNORECASE).group(1): the match
\* at the leftmost index, with 4 letters when it can, else 3; None without a match
number_match(text) ==
    LET hits == {i \in 0..Len(text) : NumberAt(text, i, 4) \/ NumberAt(text, i, 3)}
        i == CHOOSE h \in hits : \A j \in hits : h <= j
    IN  IF hits = {} THEN None
        ELSE IF NumberAt(text, i, 4) THEN Sub(text, i, i + 6) ELSE Sub(text, i, i + 5)

\* the length of the run of [a-z0-9-] characters of text that starts at index i
IdRun(text, i) ==
    LET stops == {k \in i..Len(text) : ~IsIdChar(CharAt(text, k))}
    IN  (CHOOSE k \in stops : \A j \in stops : k <= j) - i

\* re.search(f"{number}-([a-z0-9-]+)(?:_bp|_)", rule_name).group(1): the run after
\* the leftmost 'number-' that has a non-empty run followed by '_'; None without one
id_match(text, number) ==
    LET starts == {i + Len(number) : i \in Occurrences(text, number \o "-")}
        hits == {i \in starts :
                    IdRun(text, i) > 0 /\ CharAt(text, i + IdRun(text, i)) = "_"}
        i == CHOOSE h \in hits : \A j \in hits : h <= j
    IN  IF hits = {} THEN None ELSE Sub(text, i, i + IdRun(text, i))

as_written(matched) == matched

\* line 141: number_match.group(1).upper()
question_number_of(matched) == upper(matched)

\* extract_question_id(rule_name): <<question_number, actual_question_id>>
extract_question_id(text) ==
    LET matched == number_match(text)
        question_number == question_number_of(matched)
        upper_id == id_match(text, question_number)
        lower_id == id_match(text, lower(question_number))
    IN  IF matched = None THEN <<None, None>>
        ELSE IF upper_id # None THEN <<question_number, upper_id>>
        ELSE <<question_number, lower_id>>

\* prefixes of question numbers, as the rule names write them
Prefixes == {"SEC", "sec", "REL", "Rel", "COST", "cost", "PERF", "ops"}

Numbers == {"01", "05", "12"}

\* <PFX><NN>-<slug>_bp_<check>, with one or several question numbers in the name
FormedNames ==
    {pfx \o nn \o "-" \o slug \o "_bp_" \o rest :
        pfx \in Prefixes, nn \in Numbers,
        slug \in {"network-protection", "backing-up-data"},
        rest \in {"vpc-default-closed", "backup-REL09-and-ops02-check"}}

\* names without any question number
OtherNames ==
    {"", "custom-rule", "s3-bucket-public-read", "SE05-network_bp_check",
     "SEC5-network_bp_check", "SECURITY-network_bp_check", "2024-01-check"}

\* names that hold a question number elsewhere than at their start
EmbeddedNames == {"org-SEC05-network_bp_check", "SECURE05-network_bp_check-REL09"}

RuleNames == FormedNames \cup OtherNames \cup EmbeddedNames

\* everything but the parsing
rest_of_state ==
    <<updater, n_updates, invocation, pc, cleaning, packs, observed, faults, response,
      applying>>

RestIdle ==
    /\ notes = [q \in Questions |-> ""]
    /\ call = NoCall
    /\ api = NoApi
    /\ n_updates = 0
    /\ S3_BUCKET_NAME = ""
    /\ HandlerIdle

InitParse ==
    /\ parsed_name \in RuleNames
    /\ extracted = NotExtracted
    /\ ChecksIdle
    /\ PaginationIdle
    /\ ApplyingIdle
    /\ RestIdle

\* one call of extract_question_id
Extract ==
    /\ extracted = NotExtracted
    /\ extracted' = extract_question_id(parsed_name)
    /\ UNCHANGED <<parsed_name, checks, pagination, rest_of_state>>

NextParse == Extract

SpecParse == InitParse /\ [][NextParse]_vars

(***************************************************************************)
(* The compliance-check handlers (AWS Config custom rules)                 *)
(***************************************************************************)

\* event['accountId']
Accounts == {"111111111111", "222222222222"}

\* the evaluation each handler builds
Evaluation(accountId, compliance_type) ==
    [ComplianceResourceType |-> "AWS::::Account",
     ComplianceResourceId |-> accountId,
     ComplianceType |-> compliance_type]

Verdict(compliant) == IF compliant THEN "COMPLIANT" ELSE "NON_COMPLIANT"

\* what organizations.describe_organization answers: the organization, or the
\* exception AWSOrganizationsNotInUseException, or another error
Organizations ==
    {[answer |-> "organization", MasterAccountId |-> m, FeatureSet |-> f] :
        m \in {"111111111111", "999999999999"}, f \in {"ALL", "CONSOLIDATED_BILLING", "NONE"}}
    \cup {[answer |-> a, MasterAccountId |-> "", FeatureSet |-> ""] :
            a \in {"not_in_use", "error"}}

\* cost02_account_structure_implemented: check_compliance (lines 27-59)
check_compliance_cost02(org, accountId) ==
    IF org.answer # "organization" THEN "NON_COMPLIANT"
    ELSE LET is_member == org.MasterAccountId # accountId
             has_consolidated_billing == org.FeatureSet \in {"CONSOLIDATED_BILLING", "ALL"}
         IN  IF ~(is_member /\ has_consolidated_billing)
             THEN "NON_COMPLIANT" ELSE "COMPLIANT"

\* what organizations.describe_effective_policy answers
TagPolicies == {"effective", "no_effective_policy", "not_found", "error"}

\* cost03_add_organization_information_to_cost_and_usage: check_compliance (lines 21-77)
check_compliance_cost03(org, tag_policy, accountId) ==
    IF org.answer # "organization" THEN "NON_COMPLIANT"
    ELSE IF ~(org.MasterAccountId # accountId) THEN "NON_COMPLIANT"
    ELSE IF tag_policy = "effective" THEN "COMPLIANT"
    ELSE "NON_COMPLIANT"

\* the subscribers of a notification, by SubscriptionType
SubscriberLists == {<<>>, <<"SNS">>, <<"EMAIL">>, <<"SNS", "EMAIL">>}

\* the notifications of a budget, each with its subscribers
BudgetShapes ==
    {<<>>, << <<"SNS">> >>, << <<"EMAIL">> >>, << <<"SNS">>, <<"SNS", "EMAIL">> >>,
     << <<>>, <<"SNS">> >>}

MaxBudgets == 2

\* response['Budgets'] of describe_budgets, or an exception raised by one of the calls
BudgetWorlds ==
    {[raises |-> FALSE, Budgets |-> b] :
        b \in UNION {[1..n -> BudgetShapes] : n \in 0..MaxBudgets}}
    \cup {[raises |-> TRUE, Budgets |-> <<>>]}

\* a check that finds no EMAIL subscriber anywhere
no_email(subscribers) == FALSE

\* any(sub['SubscriptionType'] == 'EMAIL' for sub in subscribers)
any_email(subscribers) == \E i \in DOMAIN subscribers : subscribers[i] = "EMAIL"

RECURSIVE notifications_have_email(_)
\* lines 50-62: the loop over the notifications of one budget, left at the first
\* notification with an EMAIL subscriber
notifications_have_email(notifications) ==
    IF notifications = <<>> THEN FALSE
    ELSE IF any_email(Head(notifications)) THEN TRUE
    ELSE notifications_have_email(Tail(notifications))

RECURSIVE budgets_have_email(_)
\* lines 36-65: the loop over the budgets, left at the first budget with one
budgets_have_email(budget_list) ==
    IF budget_list = <<>> THEN FALSE
    ELSE IF notifications_have_email(Head(budget_list)) THEN TRUE
    ELSE budgets_have_email(Tail(budget_list))

\* cost03_aws_budgets: check_budget_compliance (lines 17-73); "raise" when a call raises
check_budget_compliance(world) ==
    IF world.raises THEN "raise"
    ELSE IF world.Budgets = <<>> THEN "NON_COMPLIANT"
    ELSE Verdict(budgets_have_email(world.Budgets))

\* len(response['AnomalyMonitors']), or -1 when get_anomaly_monitors raises
MonitorCounts == {-1, 0, 1, 2}

\* cost03_aws_cost_anomaly_detection: lines 36-53
check_anomaly_monitors(monitor_count) ==
    IF monitor_count < 0 THEN "raise" ELSE Verdict(monitor_count > 0)

\* the instances of each region and those in Auto Scaling groups, or an exception
RegionWorlds ==
    {[raises |-> r, regions |-> g] :
        r \in BOOLEAN,
        g \in {<<>>,
               << [instances |-> {"i-1"}, asg |-> {"i-1"}] >>,
               << [instances |-> {}, asg |-> {}], [instances |-> {"i-1", "i-2"}, asg |-> {"i-2"}] >>}}

\* cost_04_ec2_instances_without_auto_scaling: check_compliance (lines 80-93)
check_compliance_cost04(world) ==
    IF world.raises THEN "NON_COMPLIANT"
    ELSE Verdict(\A i \in DOMAIN world.regions :
                    world.regions[i].instances \ world.regions[i].asg = {})

MaxInvocations == 2

\* the tail common to the handlers: the evaluation is built, appended to the list
\* (the module's list for the modules that have one, a new list otherwise) and the list
\* is passed to config.put_evaluations; a handler whose check raised has re-raised
Report(handler_name, accountId, world, compliance_type, put_ok) ==
    LET evaluation == Evaluation(accountId, compliance_type)
        base == IF handler_name \in ModulesWithList THEN evaluations[handler_name] ELSE <<>>
        sent == Append(base, evaluation)
    IN  /\ n_invocations' = n_invocations + 1
        /\ IF compliance_type = "raise"
           THEN /\ invoked' = [handler |-> handler_name, accountId |-> accountId,
                               world |-> world, compliance_type |-> compliance_type,
                               Evaluations |-> <<>>, put |-> FALSE, completed |-> FALSE]
                /\ evaluations' = evaluations
           ELSE /\ invoked' = [handler |-> handler_name, accountId |-> accountId,
                               world |-> world, compliance_type |-> compliance_type,
                               Evaluations |-> sent, put |-> TRUE, completed |-> put_ok]
                /\ evaluations' = IF handler_name \in ModulesWithList
                                  THEN [evaluations EXCEPT ![handler_name] = sent]
                                  ELSE evaluations
        /\ UNCHANGED <<rest_of_state, parsing, pagination>>

\* cost02_account_structure_implemented: lambda_handler (lines 61-87)
InvokeCost02 ==
    /\ n_invocations < MaxInvocations
    /\ \E accountId \in Accounts, org \in Organizations, put_ok \in BOOLEAN :
           Report("cost02_account_structure_implemented", accountId, org,
                  check_compliance_cost02(org, accountId), put_ok)

\* cost03_add_organization_information_to_cost_and_usage: lambda_handler (lines 79-116)
InvokeCost03Organization ==
    /\ n_invocations < MaxInvocations
    /\ \E accountId \in Accounts, org \in Organizations, tag_policy \in TagPolicies,
          put_ok \in BOOLEAN :
           Report("cost03_add_organization_information_to_cost_and_usage", accountId,
                  <<org, tag_policy>>, check_compliance_cost03(org, tag_policy, accountId),
                  put_ok)

\* cost03_aws_budgets: lambda_handler (lines 76-112)
InvokeBudgets ==
    /\ n_invocations < MaxInvocations
    /\ \E accountId \in Accounts, world \in BudgetWorlds, put_ok \in BOOLEAN :
           Report("cost03_aws_budgets", accountId, world, check_budget_compliance(world), put_ok)

\* cost03_aws_cost_anomaly_detection: lambda_handler (lines 18-79)
InvokeAnomalyDetection ==
    /\ n_invocations < MaxInvocations
    /\ \E accountId \in Accounts, monitor_count \in MonitorCounts, put_ok \in BOOLEAN :
           Report("cost03_aws_cost_anomaly_detection", accountId, monitor_count,
                  check_anomaly_monitors(monitor_count), put_ok)

\* cost_04_ec2_instances_without_auto_scaling: lambda_handler (lines 95-123)
InvokeCost04 ==
    /\ n_invocations < MaxInvocations
    /\ \E accountId \in Accounts, world \in RegionWorlds, put_ok \in BOOLEAN :
           Report("cost_04_ec2_instances_without_auto_scaling", accountId, world,
                  check_compliance_cost04(world), put_ok)

InitChecks == RestIdle /\ FunctionsIdle

NextChecks ==
    \/ InvokeCost02
    \/ InvokeCost03Organization
    \/ InvokeBudgets
    \/ InvokeAnomalyDetection
    \/ InvokeCost04

SpecChecks == InitChecks /\ [][NextChecks]_vars

(***************************************************************************)
(* The listing functions and the pages of AWS Config                       *)
(***************************************************************************)

MaxItems == 250

\* what the service holds: the items numbered in the order it lists them
ItemLists == {[i \in 1..n |-> i] : n \in 0..MaxItems}

\* the response to a request with Limit=100 and the given NextToken (0: none): the
\* page of items, and the token of the next page when items remain
PageAt(items, token) ==
    LET page == IF token = 0 THEN 1 ELSE token
        first == (page - 1) * Limit + 1
        last == Min2(page * Limit, Len(items))
    IN  [items |-> IF first <= last THEN SubSeq(items, first, last) ELSE <<>>,
         NextToken |-> IF last < Len(items) THEN page + 1 ELSE 0]

\* a loop that leaves after the first page
never_more(token) == FALSE

\* 'if not next_token: break', negated: the loop goes on
has_more(token) == token # 0

ListingFunctions == {"get_conformance_pack_details", "get_rule_details"}

InitPages ==
    /\ fetching \in ListingFunctions
    /\ service_items \in ItemLists
    /\ requests = <<>>
    /\ next_token = 0
    /\ fetched = <<>>
    /\ fetch_pc = "request"
    /\ fetch_result = <<>>
    /\ ParsingIdle
    /\ ChecksIdle
    /\ ApplyingIdle
    /\ RestIdle

\* get_conformance_pack_details, lines 212-235: one turn of the loop; lines 237-243:
\* an exception in the request makes the function return []
RequestPage ==
    /\ fetch_pc = "request"
    /\ fetching = "get_conformance_pack_details"
    /\ \E describe_ok \in BOOLEAN :
        LET page_response == PageAt(service_items, next_token)
        IN  IF describe_ok
            THEN /\ requests' = Append(requests, next_token)
                 /\ fetched' = fetched \o page_response.items
                 /\ next_token' = page_response.NextToken
                 /\ IF has_more(page_response.NextToken)
                    THEN fetch_pc' = "request" /\ fetch_result' = fetch_result
                    ELSE fetch_pc' = "returned" /\ fetch_result' = fetched \o page_response.items
            ELSE /\ requests' = Append(requests, next_token)
                 /\ fetch_pc' = "raised"
                 /\ fetch_result' = <<>>
                 /\ UNCHANGED <<fetched, next_token>>
    /\ UNCHANGED <<fetching, service_items, parsing, checks, rest_of_state>>

\* get_rule_details, lines 245-256: one request without a token, whose
\* EvaluationResults are returned; [] when the request raises
RequestDetails ==
    /\ fetch_pc = "request"
    /\ fetching = "get_rule_details"
    /\ \E details_ok \in BOOLEAN :
        LET page_response == PageAt(service_items, 0)
        IN  /\ requests' = Append(requests, 0)
            /\ IF details_ok
               THEN fetch_pc' = "returned" /\ fetch_result' = page_response.items
               ELSE fetch_pc' = "raised" /\ fetch_result' = <<>>
    /\ UNCHANGED <<fetching, service_items, next_token, fetched, parsing, checks,
                   rest_of_state>>

NextPages ==
    \/ RequestPage
    \/ RequestDetails

\* a call that has started runs on: the loop takes its next turn
SpecPages == InitPages /\ [][NextPages]_vars /\ WF_vars(NextPages)

(***************************************************************************)
(* The functions of the updater applied on their own                       *)
(***************************************************************************)

\* everything but the function applied stays as constructed
not_applying ==
    <<updater, n_updates, invocation, pc, cleaning, packs, observed, faults, response,
      parsing, checks, pagination>>

\* rules of the security pack as the service may list them: the rules of PackRules,
\* one more rule of the question 'identities', and a rule without evaluations
PoolRules ==
    << Rule("SEC02-identities_bp_mfa", "NON_COMPLIANT"),
       Rule("SEC03-permissions_bp_root", "COMPLIANT"),
       Rule("SEC10-incident_bp_plan", "COMPLIANT"),
       Rule("SEC02-identities_bp_keys", "NON_COMPLIANT"),
       Rule("SEC02-identities_bp_rotation", "NON_COMPLIANT"),
       Rule("SEC02-identities_bp_unused", "INSUFFICIENT_DATA") >>

MaxRules == 3

\* the lists of up to MaxRules different rules of the pool, in any order
RuleLists ==
    {[i \in DOMAIN f |-> PoolRules[f[i]]] :
        f \in {g \in UNION {[1..n -> DOMAIN PoolRules] : n \in 0..MaxRules} :
                  \A i, j \in DOMAIN g : i # j => g[i] # g[j]}}

\* the question ids of the security pillar, in the two orders list_answers may give
QuestionIdLists == {<<"identities", "permissions">>, <<"permissions", "identities">>}

FirstPassInputs ==
    {[question_ids |-> q, rules |-> r] : q \in QuestionIdLists, r \in RuleLists}

\* question ids with and without dots, and rule names that hold whole ids, parts of
\* four characters and more, parts of three characters, or nothing of them
DottedQuestionIds ==
    {<<"identities", "permissions">>,
     <<"ops.priorities", "identities">>,
     <<"sec.keys", "cost.govern-usage">>,
     <<"cost.govern-usage", "sec.keys">>,
     <<"a.bcd.efgh", "efgh">>,
     <<"abc.def", "ghi">>}

MatchedNames ==
    {"SEC02-identities_bp_mfa", "SEC03-permissions_bp_root", "SEC10-incident_bp_plan",
     "priorities_bp_owner", "ops.priorities_bp_owner", "sec-check", "sec-keys-rotation",
     "cost-keys", "govern-usage-sec", "x-efgh-y", "bcd-only", "abc-def-ghi", "def",
     "sec.keys-cost.govern-usage", ""}

MatchInputs ==
    {[question_ids |-> q, rule_name |-> n] : q \in DottedQuestionIds, n \in MatchedNames}

\* n evaluation results of one resource type and one status; the resources differ, or
\* they are one resource evaluated n times
ResultsOf(type, compliance, n, same) ==
    [i \in 1..n |->
        Result(type,
               (IF compliance = "COMPLIANT" THEN "ok" ELSE "bad")
                  \o (IF same THEN "" ELSE ToString(i)),
               compliance)]

Reverse(seq) == [i \in DOMAIN seq |-> seq[Len(seq) + 1 - i]]

\* the number of compliant resources around the threshold of the claim
CompliantCounts == {0, 1, 10, 11}

\* EvaluationResults of a rule: non-compliant and compliant users, compliant buckets
\* and non-compliant resources without a resource type, in two orders
EvaluationLists ==
    {IF backwards THEN Reverse(list) ELSE list :
        backwards \in BOOLEAN,
        list \in {ResultsOf("AWS::IAM::User", "NON_COMPLIANT", bad, same)
                    \o ResultsOf("AWS::IAM::User", "COMPLIANT", ok, same)
                    \o ResultsOf("AWS::S3::Bucket", "COMPLIANT", buckets, same)
                    \o ResultsOf(None, "NON_COMPLIANT", untyped, same) :
                    bad \in 0..2, ok \in CompliantCounts, buckets \in 0..1,
                    untyped \in 0..1, same \in BOOLEAN}}

\* rule_data of the first pass
RuleData(rule_name, evaluation_results) ==
    [rule_name |-> rule_name, compliance_type |-> "NON_COMPLIANT",
     evaluation_results |-> evaluation_results]

\* the groups of one rule, and the groups of two rules with few resources
RuleGroups ==
    {<<RuleData("SEC02-identities_bp_mfa", e)>> : e \in EvaluationLists}
    \cup {<<RuleData("SEC02-identities_bp_mfa", e1), RuleData("SEC02-identities_bp_keys", e2)>> :
            e1, e2 \in {e \in EvaluationLists : Len(e) <= 2}}

\* collect_compliance_data, lines 27-36: the pillar name of a conformance pack
pillar_name_of(conformance_pack_name) ==
    LET pillar_id == pillar_of(conformance_pack_name)
    IN  CASE pillar_id = "security" -> "Security"
          [] pillar_id = "reliability" -> "Reliability"
          [] pillar_id = "costOptimization" -> "Cost Optimization"
          [] OTHER -> None

\* str.isdigit() of a short string: not empty, digits only
isdigit(text) == text # "" /\ \A i \in 0..(Len(text) - 1) : IsDigit(CharAt(text, i))

\* lines 56-61 for one prefix: rule_name[idx:idx+5] at the first occurrence of the
\* prefix when its characters from the fourth on are digits, None otherwise
potential_id(rule_name, prefix) ==
    LET idx == Find(rule_name, prefix)
        five == Sub(rule_name, idx, Min2(idx + 5, Len(rule_name)))
    IN  IF idx >= 0 /\ isdigit(SliceFrom(five, 3)) THEN five ELSE None

\* collect_compliance_data, lines 54-63: the best practice id of a rule name, None
\* when none is extracted
best_practice_id(rule_name) ==
    IF potential_id(rule_name, "SEC") # None THEN potential_id(rule_name, "SEC")
    ELSE IF potential_id(rule_name, "REL") # None THEN potential_id(rule_name, "REL")
    ELSE potential_id(rule_name, "COST")

\* lines 79-88: the resources of a rule as the report holds them
report_resources(evaluation_results) ==
    [i \in DOMAIN evaluation_results |->
        [resource_type |-> evaluation_results[i].ResourceType,
         resource_id |-> evaluation_results[i].ResourceId,
         compliance_status |-> evaluation_results[i].ComplianceType]]

\* lines 70-88: the resources are appended to the entry of the best practice, which
\* is created at the end when missing
file_resources(best_practices, id, resources) ==
    IF \E i \in DOMAIN best_practices : best_practices[i].best_practice_id = id
    THEN [i \in DOMAIN best_practices |->
            IF best_practices[i].best_practice_id = id
            THEN [best_practices[i] EXCEPT !.resources = @ \o resources]
            ELSE best_practices[i]]
    ELSE Append(best_practices,
                [best_practice_id |-> id, title |-> "Best Practice " \o id,
                 resources |-> resources])

RECURSIVE collected(_)
\* lines 49-88: compliance_data[pillar_name] after the rules of one pack, the best
\* practices in insertion order
collected(rules) ==
    IF rules = <<>> THEN <<>>
    ELSE LET rule_name == rules[Len(rules)].ConfigRuleName
             before == collected(SubSeq(rules, 1, Len(rules) - 1))
         IN  IF best_practice_id(rule_name) = None THEN before
             ELSE file_resources(before, best_practice_id(rule_name),
                                 report_resources(get_rule_details(rule_name, TRUE)))

\* collect_compliance_data for one conformance pack, every lookup answering
collect_compliance_data(conformance_pack_name, rules) ==
    [pillar_name |-> pillar_name_of(conformance_pack_name),
     best_practices |-> IF pillar_name_of(conformance_pack_name) = None
                        THEN <<>> ELSE collected(rules)]

\* rule names with an identifier at the start, inside, after a longer word with the
\* same prefix, with one digit, and without any
ReportedNames ==
    <<"SEC02-identities_bp_mfa", "SEC02-identities_bp_rotation",
      "REL09-backing-up-data_bp_plan", "COST02-govern-usage_bp_budget",
      "custom-SEC03-permissions_bp_root", "RELIABILITY-REL09-backing-up-data_bp_plan",
      "SEC1-short", "custom-rule">>

\* one or two different rules of a pack, in any order
ReportedRules ==
    {<<Rule(ReportedNames[a], "COMPLIANT")>> : a \in DOMAIN ReportedNames}
    \cup {<<Rule(ReportedNames[p[1]], "COMPLIANT"),
             Rule(ReportedNames[p[2]], "NON_COMPLIANT")>> :
            p \in {q \in (DOMAIN ReportedNames) \X (DOMAIN ReportedNames) : q[1] # q[2]}}

CollectInputs ==
    {[conformance_pack_name |-> conformance_packs[k], rules |-> r] :
        k \in DOMAIN conformance_packs, r \in ReportedRules}

AppliedFunctions ==
    {"first_pass", "matching_question_id", "detailed_notes",
     "generate_summarized_notes_for_question", "collect_compliance_data"}

\* the function named is applied to the argument drawn
Applies(function) == applied = function /\ ~result.returned

InitFunctions ==
    /\ \/ applied = "first_pass" /\ argument \in FirstPassInputs
       \/ applied = "matching_question_id" /\ argument \in MatchInputs
       \/ applied = "detailed_notes" /\ argument \in RuleGroups
       \/ applied = "generate_summarized_notes_for_question" /\ argument \in RuleGroups
       \/ applied = "collect_compliance_data" /\ argument \in CollectInputs
    /\ result = NotApplied
    /\ ParsingIdle
    /\ ChecksIdle
    /\ PaginationIdle
    /\ RestIdle

\* process_conformance_pack, lines 443-484: the first pass, every lookup answering
ApplyFirstPass ==
    /\ Applies("first_pass")
    /\ result' = Returns(first_pass(argument.question_ids, argument.rules, {}))
    /\ UNCHANGED <<applied, argument, not_applying>>

\* process_conformance_pack, lines 450-474: the question id found for one rule name
ApplyMatching ==
    /\ Applies("matching_question_id")
    /\ result' = Returns(matching_question_id(argument.question_ids, argument.rule_name))
    /\ UNCHANGED <<applied, argument, not_applying>>

\* process_conformance_pack, lines 488-530: the detailed notes of a group
ApplyDetailed ==
    /\ Applies("detailed_notes")
    /\ result' = Returns(detailed_notes(argument))
    /\ UNCHANGED <<applied, argument, not_applying>>

\* generate_summarized_notes_for_question, lines 140-158
ApplySummarized ==
    /\ Applies("generate_summarized_notes_for_question")
    /\ result' = Returns(generate_summarized_notes_for_question(argument))
    /\ UNCHANGED <<applied, argument, not_applying>>

\* collect_compliance_data, lines 25-88, for one conformance pack
ApplyCollect ==
    /\ Applies("collect_compliance_data")
    /\ result' = Returns(collect_compliance_data(argument.conformance_pack_name,
                                                 argument.rules))
    /\ UNCHANGED <<applied, argument, not_applying>>

NextFunctions ==
    \/ ApplyFirstPass
    \/ ApplyMatching
    \/ ApplyDetailed
    \/ ApplySummarized
    \/ ApplyCollect

SpecFunctions == InitFunctions /\ [][NextFunctions]_vars

(***************************************************************************)
(* Claims about update_wellarchitected_notes (checked under SpecUpdate)    *)
(***************************************************************************)

\* the latest invocation found a marked section in the notes it read
CallFoundSection ==
    has_section(find_start(call.current_notes), find_end(call.current_notes))

\* the latest invocation's splice was over the budget
CallOverBudget ==
    LET cur == call.current_notes
        section == new_section(call.consolidated_notes, call.timestamp)
    IN  exceeds_limit(
            IF CallFoundSection
            THEN before_section(cur, find_start(cur)) \o section
                    \o after_section(cur, find_end(cur))
            ELSE cur \o separator(cur) \o section)

\* text holds neither the start marker's prefix nor the end marker
MarkerFree(text) == ~Contains(text, START_PREFIX) /\ ~Contains(text, end_marker)

\* text holds exactly one start marker and one end marker, the start first
OneSection(text) ==
    /\ Count(text, START_PREFIX) = 1
    /\ Count(text, end_marker) = 1
    /\ find_start(text) < find_end(text)

\* C1: the Notes passed to update_answer, for current notes of at most
\* MAX_NOTES_LENGTH characters, are at most MAX_NOTES_LENGTH - NOTES_SAFETY_MARGIN
\* characters long.
C1_WrittenWithinBudget ==
    (Wrote(call) /\ Len(call.current_notes) <= MAX_NOTES_LENGTH)
        => Len(call.updated_notes) <= MAX_NOTES_LENGTH - NOTES_SAFETY_MARGIN

\* C2: the text before the start marker and after the end marker of the current
\* notes is the prefix and the suffix of the notes written; without a marked section
\* the whole current notes are a prefix of the notes written.
C2_OutsideTextPreserved ==
    Wrote(call) =>
        LET cur == call.current_notes
        IN  IF CallFoundSection
            THEN /\ StartsWith(call.updated_notes, before_section(cur, find_start(cur)))
                 /\ EndsWith(call.updated_notes, after_section(cur, find_end(cur)))
            ELSE StartsWith(call.updated_notes, cur)

\* C3: an update with content A and a timestamp, followed by an update of the result
\* with the same A and the same timestamp, leaves the notes of the first update.
C3_Idempotent ==
    [][(/\ call.outcome = "updated"
        /\ call'.outcome = "updated"
        /\ n_updates' = n_updates + 1
        /\ call'.question_id = call.question_id
        /\ call'.consolidated_notes = call.consolidated_notes
        /\ call'.timestamp = call.timestamp)
            => notes' = notes]_vars

\* C4: without a marked section in the current notes, the notes written are the
\* current notes, a blank line if they are not empty, the start marker, a newline,
\* the content, a newline and the end marker.
C4_AppendExact ==
    (Wrote(call) /\ ~CallFoundSection) =>
        call.updated_notes =
            call.current_notes
                \o (IF call.current_notes = "" THEN "" ELSE "\n\n")
                \o start_marker(call.timestamp) \o "\n"
                \o call.consolidated_notes \o "\n" \o end_marker

\* C5: an update, with content free of marker text, of notes that hold no marker
\* text or exactly one section leaves notes with exactly one start marker and one end
\* marker, the start first, whatever the timestamps; so does, by induction, every
\* sequence of such updates that starts from notes without marker text.
C5_OneSection ==
    (/\ call.outcome = "updated"
     /\ MarkerFree(call.consolidated_notes)
     /\ (MarkerFree(call.current_notes) \/ OneSection(call.current_notes)))
        => /\ notes[call.question_id] = call.updated_notes
           /\ OneSection(notes[call.question_id])

\* C5 witness: user text without markers, a section appended with timestamp T1, then
\* an update with timestamp T2, which replaced that section
C5_Witness ==
    /\ n_updates = 2
    /\ call.outcome = "updated"
    /\ call.timestamp = T2
    /\ MarkerFree(call.consolidated_notes)
    /\ StartsWith(call.current_notes, "user text\n\n" \o start_marker(T1))
    /\ OneSection(call.current_notes)
    /\ StartsWith(notes[FocusQuestion], "user text\n\n" \o start_marker(T2))
    /\ ~Contains(notes[FocusQuestion], start_marker(T1))

(***************************************************************************)
(* Claims about lambda_handler (checked under Spec)                        *)
(***************************************************************************)

\* the invocation carries a workload_id
HasWorkloadId == "workload_id" \in event.keys /\ event.workload_id # ""

\* the invocation runs in dry-run mode: dry_run is true or absent from the event
DryRun == "dry_run" \in event.keys => event.dry_run

\* the questions with resolved rules in the packs processed so far
AllPacksProcessed == processed = Range(conformance_packs)

\* C6: in an invocation with dry_run true or absent from the event, update_answer
\* is never called, neither while the packs are processed nor while the notes are
\* cleaned, and the stored notes stay as they were.
C6_DryRunNeverUpdates ==
    (pc # "idle" /\ DryRun) =>
        /\ api.update_answer = 0
        /\ call.outcome \in {"none", "dry_run"}
        /\ notes \in {[q \in Questions |-> n] : n \in HandlerNotes}

C6_Witness ==
    /\ pc = "done"
    /\ "dry_run" \notin event.keys
    /\ event_clean_notes(event)
    /\ response.statusCode = 200
    /\ call.outcome = "dry_run"
    /\ Cardinality(attempted) = 4

\* C7: in lambda_function.lambda_handler with dry_run true or absent, no external
\* write is made: update_answer is not called and no object is put to S3.
C7_DryRunNoExternalWrite ==
    (handler = "lambda_function" /\ pc # "idle" /\ DryRun) =>
        (api.update_answer = 0 /\ api.put_object = 0)

\* C8: an invocation without workload_id (absent or empty) ends with statusCode
\* 400, status 'error' and a message, and makes no external call, whatever dry_run
\* and clean_notes are.
C8_MissingWorkloadId ==
    (pc # "idle" /\ ~HasWorkloadId) =>
        /\ pc = "done"
        /\ response.statusCode = 400
        /\ response.status = "error"
        /\ response.message # ""
        /\ api = NoApi
        /\ processed = {}

C8_Witness ==
    /\ pc = "done"
    /\ "workload_id" \in event.keys
    /\ event.workload_id = ""
    /\ "dry_run" \in event.keys
    /\ ~event.dry_run
    /\ event_clean_notes(event)
    /\ response = MissingWorkloadResponse

\* C9: a service error while the notes of one question are read or written never
\* propagates: every question with resolved rules in a pack whose processing has
\* ended has had its write-back attempted, within the current pack every group
\* before the current one has, and an invocation that returns success has
\* processed all three packs.
C9_FailureIsPerQuestion ==
    /\ pc # "raised"
    /\ \A r \in resolved : r[1] < pack_i => r \in attempted
    /\ (pc = "packs" /\ group_i >= 1) =>
          \A i \in 1..(group_i - 1) :
              i <= Len(question_rule_mapping) =>
                  <<pack_i, question_rule_mapping[i].question_id>> \in attempted
    /\ (pc = "done" /\ response.statusCode = 200) =>
          (AllPacksProcessed /\ attempted = resolved)

C9_Witness ==
    /\ pc = "done"
    /\ ~DryRun
    /\ call.outcome = "updated"
    /\ <<1, "identities">> \in failed
    /\ <<1, "permissions">> \in attempted \ failed
    /\ <<3, "govern-usage">> \in attempted \ failed
    /\ AllPacksProcessed

SplicedNotes(current_notes, content, timestamp) ==
    LET start_idx == find_start(current_notes)
        end_idx == find_end(current_notes)
    IN  IF has_section(start_idx, end_idx)
        THEN before_section(current_notes, start_idx) \o new_section(content, timestamp)
                \o after_section(current_notes, end_idx)
        ELSE current_notes \o separator(current_notes) \o new_section(content, timestamp)

\* the latest call of update_wellarchitected_notes was made by the second pass for
\* the group before group_i, in an invocation without any service error so far,
\* and reached update_answer
GroupWritten ==
    /\ pc = "packs"
    /\ group_i >= 2
    /\ group_i - 1 <= Len(question_rule_mapping)
    /\ Wrote(call)
    /\ call.question_id = question_rule_mapping[group_i - 1].question_id
    /\ faults = 0

\* C11: when the detailed render spliced into the current notes of a question is
\* within the budget, the detailed render is the content passed to the write-back.
C11_DetailedWhenItFits ==
    GroupWritten =>
        LET detailed == detailed_notes(question_rule_mapping[group_i - 1].rules_data)
        IN  ~exceeds_limit(SplicedNotes(call.current_notes, detailed, call.timestamp))
                => call.consolidated_notes = detailed

(***************************************************************************)
(* Claims about the truncation (checked under SpecUpdate)                  *)
(***************************************************************************)

\* the space left for the content of the latest call beside the text outside the
\* section (the whole current notes when they have no section) and both markers
CallSpace ==
    LET cur == call.current_notes
    IN  IF CallFoundSection
        THEN available_space(before_section(cur, find_start(cur)),
                             after_section(cur, find_end(cur)), call.timestamp)
        ELSE available_space(cur, "", call.timestamp)

\* the end of a truncated section: the suffix line and the end marker
TruncatedEnd == "\n" \o TRUNCATED \o "\n" \o end_marker

\* the text between the start marker's line and the suffix line in the notes the
\* latest call wrote ("" when the start marker or the suffix line is missing)
WrittenSlice ==
    LET written == call.updated_notes
        s == Find(written, start_marker(call.timestamp) \o "\n")
        e == Find(written, TruncatedEnd)
    IN  IF s < 0 \/ e < 0 THEN ""
        ELSE Sub(written, s + Len(start_marker(call.timestamp)) + 1, e)

\* C12: when the spliced notes are over the budget and the space left for the
\* content is above 100 characters, the section written holds a non-empty leading
\* slice of the content followed by the suffix line, with and without an existing
\* section.
C12_TruncatedSlice ==
    (Wrote(call) /\ CallOverBudget /\ CallSpace > 100) =>
        /\ WrittenSlice # ""
        /\ StartsWith(call.consolidated_notes, WrittenSlice)

\* the latest call wrote, in place of the section it found, a section that holds
\* only the placeholder line
PlaceholderOnly ==
    LET cur == call.current_notes
    IN  call.updated_notes =
            before_section(cur, find_start(cur))
                \o start_marker(call.timestamp) \o "\n" \o TRUNCATED \o "\n" \o end_marker
                \o after_section(cur, find_end(cur))

\* C13 as stated: with a marked section in the current notes and 100 characters or
\* less left for the content, the section written holds only the placeholder line.
C13_PlaceholderWhenNoSpace ==
    (Wrote(call) /\ CallFoundSection /\ CallSpace <= 100) => PlaceholderOnly

\* C13: with a marked section in the current notes, 100 characters or less left
\* for the content and spliced notes over the budget, the section written holds
\* only the placeholder line and no character of the content.
C13_PlaceholderWhenOverBudget ==
    (Wrote(call) /\ CallFoundSection /\ CallSpace <= 100 /\ CallOverBudget)
        => PlaceholderOnly

C13_Witness ==
    /\ Wrote(call)
    /\ CallFoundSection
    /\ CallSpace <= 100
    /\ CallOverBudget
    /\ Len(call.consolidated_notes) >= 150
    /\ PlaceholderOnly

(***************************************************************************)
(* Claims about the first pass (checked under Spec)                        *)
(***************************************************************************)

\* the first pass of the current pack is done
FirstPassDone == pc = "packs" /\ group_i >= 1

\* the question ids known for the pillar of the current pack
KnownQuestionIds ==
    Range(get_question_mapping(pillar_of(conformance_packs[pack_i]), TRUE))

\* the rule name holds a known question id, or a part of one (between dots) of
\* more than 3 characters
Resolvable(rule_name) ==
    \E question_id \in KnownQuestionIds :
        \/ Contains(rule_name, question_id)
        \/ \E part \in Range(SplitDots(question_id)) :
              Len(part) > 3 /\ Contains(rule_name, part)

\* the places <<group, position>> of the groups
GroupPlaces ==
    UNION {{<<g, k>> : k \in DOMAIN question_rule_mapping[g].rules_data} :
              g \in DOMAIN question_rule_mapping}

\* the places that hold the rule of that name
PlacesOf(rule_name) ==
    {p \in GroupPlaces :
        question_rule_mapping[p[1]].rules_data[p[2]].rule_name = rule_name}

\* the rules of the pack that the first pass dropped
DroppedRules ==
    {i \in DOMAIN rules_list : PlacesOf(rules_list[i].ConfigRuleName) = {}}

\* C14: after the first pass, every rule of the pack whose name resolves to a
\* known question id is in the group of exactly one question, a known one; a rule
\* that resolves to none is in no group; grouped plus dropped rules are the rules
\* of the pack.
C14_GroupedOrDropped ==
    FirstPassDone =>
        /\ \A i \in DOMAIN rules_list :
              IF Resolvable(rules_list[i].ConfigRuleName)
              THEN Cardinality(PlacesOf(rules_list[i].ConfigRuleName)) = 1
              ELSE i \in DroppedRules
        /\ \A g \in DOMAIN question_rule_mapping :
              question_rule_mapping[g].question_id \in KnownQuestionIds
        /\ \A p \in GroupPlaces :
              \E i \in DOMAIN rules_list :
                  rules_list[i].ConfigRuleName =
                      question_rule_mapping[p[1]].rules_data[p[2]].rule_name
        /\ Cardinality(GroupPlaces) + Cardinality(DroppedRules) = Len(rules_list)

C14_Witness ==
    /\ FirstPassDone
    /\ Len(rules_list) = 4
    /\ Cardinality(GroupPlaces) = 3
    /\ Cardinality(DroppedRules) = 1
    /\ Len(question_rule_mapping) = 2

(***************************************************************************)
(* Claims about extract_question_id (checked under SpecParse)              *)
(***************************************************************************)

\* extract_question_id has returned
Extracted == extracted # NotExtracted

\* the prefixes in upper case
UpperPrefix(pfx) ==
    CASE pfx \in {"SEC", "sec"} -> "SEC"
      [] pfx \in {"REL", "Rel"} -> "REL"
      [] pfx \in {"COST", "cost"} -> "COST"
      [] pfx = "PERF" -> "PERF"
      [] pfx = "ops" -> "OPS"

\* the name holds 3 or 4 letters followed by 2 digits
HasQuestionNumber(text) ==
    \E i \in 0..Len(text), n \in {3, 4} : NumberAt(text, i, n)

\* C15: for a rule name <PFX><NN>-<slug>_bp_..., extract_question_id returns the
\* question number <PFX><NN> in upper case, also when other question numbers follow
\* in the name; for a name that holds a question number elsewhere it returns the
\* first one; for a name without any it returns (None, None).
C15_QuestionNumber ==
    Extracted =>
        /\ \A pfx \in Prefixes, nn \in Numbers :
              (StartsWith(parsed_name, pfx \o nn \o "-") /\ Contains(parsed_name, "_bp_"))
                  => extracted[1] = UpperPrefix(pfx) \o nn
        /\ parsed_name = "org-SEC05-network_bp_check" => extracted[1] = "SEC05"
        /\ parsed_name = "SECURE05-network_bp_check-REL09" => extracted[1] = "CURE05"
        /\ HasQuestionNumber(parsed_name) => extracted[1] # None
        /\ ~HasQuestionNumber(parsed_name) => extracted = <<None, None>>

C15_Witness ==
    /\ Extracted
    /\ parsed_name = "cost05-backing-up-data_bp_backup-REL09-and-ops02-check"
    /\ extracted = <<"COST05", "backing-up-data">>

(***************************************************************************)
(* Claims about the lookups of process_conformance_pack (checked under     *)
(* Spec)                                                                   *)
(***************************************************************************)

\* the lookups of the pass over one pack
LookupsOf(pack) == {i \in DOMAIN lookups : lookups[i].pack = pack}

\* the lookups of an operation that raised
FailedLookups(op) == {i \in DOMAIN lookups : lookups[i].op = op /\ ~lookups[i].ok}

\* the pass over the pack is the current one, its groups are still held
CurrentPass(pack) == FirstPassDone /\ pack_i = pack

\* the rule of that name is in a group, with no evaluation results
GroupedEmpty(rule_name) ==
    /\ PlacesOf(rule_name) # {}
    /\ \A place \in PlacesOf(rule_name) :
          question_rule_mapping[place[1]].rules_data[place[2]].evaluation_results = <<>>

\* for each pack, the number of its rules that resolve to a question
MatchedCount ==
    [pack \in DOMAIN conformance_packs |->
        Cardinality(matched_rules(
            get_question_mapping(pillar_of(conformance_packs[pack]), TRUE),
            PackRules(conformance_packs[pack])))]

\* C26: a service error in a lookup of the updater (list_answers for a pillar,
\* describe_conformance_pack_compliance for a pack,
\* get_compliance_details_by_config_rule for a rule) is not propagated: the lookup
\* yields an empty result, the invocation goes on with the next rule, question or
\* pack and ends by returning a response with a status and a message.
C26_LookupErrorsContained ==
    /\ pc # "raised"
    /\ \A i \in FailedLookups("list_answers") :
          LookupsOf(lookups[i].pack) = {i}
    /\ \A i \in FailedLookups("describe_conformance_pack_compliance") :
          /\ LookupsOf(lookups[i].pack) = {i - 1, i}
          /\ CurrentPass(lookups[i].pack) => question_rule_mapping = <<>>
    /\ \A i \in FailedLookups("get_compliance_details_by_config_rule") :
          /\ Cardinality({j \in LookupsOf(lookups[i].pack) :
                            lookups[j].op = "get_compliance_details_by_config_rule"})
                = MatchedCount[lookups[i].pack]
          /\ CurrentPass(lookups[i].pack) => GroupedEmpty(lookups[i].subject)
    /\ (pc = "done" /\ HasWorkloadId /\ ~(event_clean_notes(event) /\ ~success)) =>
          /\ AllPacksProcessed
          /\ \A pack \in DOMAIN conformance_packs : LookupsOf(pack) # {}
          /\ response.statusCode = 200
          /\ response.status = "success"
          /\ response.message = "Well-Architected Tool updated successfully"

\* the lookup of the first rule of the first pack raised: the other rules of the pack
\* were looked up, its questions and the other packs were processed, and the
\* invocation returned its response
C26_Witness ==
    /\ pc = "done"
    /\ response.statusCode = 200
    /\ FailedLookups("get_compliance_details_by_config_rule") = {3}
    /\ lookups[3].subject = "SEC02-identities_bp_mfa"
    /\ lookups[4].op = "get_compliance_details_by_config_rule" /\ lookups[4].ok
    /\ \E i \in LookupsOf(1) : lookups[i].op = "get_answer"
    /\ LookupsOf(2) # {} /\ LookupsOf(3) # {}

\* the calls of update_answer for a question in the pass over a pack
UpdatesOf(pack, question_id) ==
    {i \in LookupsOf(pack) :
        lookups[i].op = "update_answer" /\ lookups[i].subject = question_id}

\* for each pack, the questions that have a rule of the pack resolved to them
ResolvedQuestions ==
    [pack \in DOMAIN conformance_packs |->
        {question_id \in Questions :
            \E r \in DOMAIN PackRules(conformance_packs[pack]) :
                matching_question_id(
                    get_question_mapping(pillar_of(conformance_packs[pack]), TRUE),
                    PackRules(conformance_packs[pack])[r].ConfigRuleName) = question_id}]

\* the question has a rule of the pack resolved to it
HasResolvedRule(pack, question_id) == question_id \in ResolvedQuestions[pack]

\* list_answers gave no question id for the pass: it raised, or the pillar has none
NoQuestions(i) ==
    /\ lookups[i].op = "list_answers"
    /\ (~lookups[i].ok \/ AnswerSummaries(lookups[i].subject) = <<>>)

\* C28: in one pass of process_conformance_pack update_answer is called at most once
\* for each question id and only for questions with a rule resolved to them; a
\* question without a resolved rule is neither read nor written; when the pillar has
\* no questions (or cannot be determined) nothing is read from Config and nothing is
\* written.
C28_OneUpdatePerResolvedQuestion ==
    /\ \A i \in DOMAIN lookups :
          /\ lookups[i].op = "update_answer"
                => UpdatesOf(lookups[i].pack, lookups[i].subject) = {i}
          /\ lookups[i].op \in {"get_answer", "update_answer"}
                => /\ <<lookups[i].pack, lookups[i].subject>> \in resolved
                   /\ HasResolvedRule(lookups[i].pack, lookups[i].subject)
          /\ NoQuestions(i) => LookupsOf(lookups[i].pack) = {i}
    /\ \A pack \in DOMAIN conformance_packs :
          (conformance_packs[pack] \in processed /\ LookupsOf(pack) = {})
              => pillar_of(conformance_packs[pack]) = None

\* dry_run false: both questions of the security pillar were written once, the
\* question 'priorities' of another pillar was never read, and the pass over the
\* reliability pack, whose list_answers raised, made no other call
C28_Witness ==
    /\ pc = "done"
    /\ ~DryRun
    /\ Cardinality(UpdatesOf(1, "identities")) = 1
    /\ Cardinality(UpdatesOf(1, "permissions")) = 1
    /\ \A i \in DOMAIN lookups : lookups[i].subject # "priorities"
    /\ \E i \in LookupsOf(2) : NoQuestions(i) /\ LookupsOf(2) = {i}
    /\ Cardinality(UpdatesOf(3, "govern-usage")) = 1

(***************************************************************************)
(* Claims about clean_all_notes (checked under Spec)                       *)
(***************************************************************************)

\* clean_all_notes(workload_id, dry_run=False) has returned True and no question has
\* been processed since
CleanedAll ==
    /\ pc = "packs"
    /\ event_clean_notes(event)
    /\ ~DryRun
    /\ success
    /\ attempted = {}

\* C17: after clean_all_notes(workload_id, dry_run=False) returns True, the notes of
\* every question listed for every pillar are the empty string, whatever they held
\* before.
C17_NotesEmptied ==
    CleanedAll => \A q \in Questions : notes[q] = ""

(***************************************************************************)
(* Claims about the compliance-check handlers (checked under SpecChecks)   *)
(***************************************************************************)

\* the latest invocation ran to its return statement
Completed == invoked.completed

\* C16: every invocation of a compliance-check handler that completes has passed to
\* put_evaluations exactly one evaluation, the one of the invoking account with the
\* verdict computed in that invocation, whatever invocations the loaded module served
\* before.
C16_ExactlyOneEvaluation ==
    Completed =>
        invoked.Evaluations = <<Evaluation(invoked.accountId, invoked.compliance_type)>>

\* the budgets listed for the latest invocation of the budgets check
InvokedBudgets == invoked.world.Budgets

\* at least one budget has at least one notification with at least one EMAIL subscriber
SomeEmailSubscriber ==
    \E b \in DOMAIN InvokedBudgets :
        \E n \in DOMAIN InvokedBudgets[b] :
            \E k \in DOMAIN InvokedBudgets[b][n] : InvokedBudgets[b][n][k] = "EMAIL"

\* check_budget_compliance returned a verdict for the latest invocation
BudgetsChecked ==
    /\ invoked.handler = "cost03_aws_budgets"
    /\ ~invoked.world.raises

\* C18: check_budget_compliance returns COMPLIANT if and only if some budget of the
\* account has a notification with a subscriber of type EMAIL, and NON_COMPLIANT
\* otherwise: with no budget at all, and with budgets none of which has one.
C18_CompliantIffEmailSubscriber ==
    BudgetsChecked =>
        /\ invoked.compliance_type = "COMPLIANT" <=> SomeEmailSubscriber
        /\ invoked.compliance_type = "NON_COMPLIANT" <=> ~SomeEmailSubscriber
        /\ InvokedBudgets = <<>> => invoked.compliance_type = "NON_COMPLIANT"

\* two budgets, the first without an EMAIL subscriber, the second with one behind an
\* SNS-only notification: the check answered COMPLIANT
C18_Witness ==
    /\ BudgetsChecked
    /\ InvokedBudgets = << << <<>>, <<"SNS">> >>, << <<"SNS">>, <<"SNS", "EMAIL">> >> >>
    /\ invoked.compliance_type = "COMPLIANT"

\* an AWS API call made during the check of the latest invocation failed
ApiCallFailed ==
    CASE invoked.handler = "cost02_account_structure_implemented" ->
            invoked.world.answer # "organization"
      [] invoked.handler = "cost03_add_organization_information_to_cost_and_usage" ->
            \/ invoked.world[1].answer # "organization"
            \/ (/\ invoked.world[1].MasterAccountId # invoked.accountId
                /\ invoked.world[2] \in {"not_found", "error"})
      [] invoked.handler = "cost03_aws_budgets" -> invoked.world.raises
      [] invoked.handler = "cost03_aws_cost_anomaly_detection" -> invoked.world < 0
      [] invoked.handler = "cost_04_ec2_instances_without_auto_scaling" ->
            invoked.world.raises
      [] OTHER -> FALSE

\* C30: an invocation in which an AWS API call of the check fails never sends a
\* COMPLIANT evaluation: the handler passes only NON_COMPLIANT evaluations to
\* put_evaluations, or it raises without calling put_evaluations.
C30_FailedCheckNeverCompliant ==
    ApiCallFailed =>
        IF invoked.compliance_type = "raise"
        THEN ~invoked.put
        ELSE /\ invoked.put
             /\ \A i \in DOMAIN invoked.Evaluations :
                   invoked.Evaluations[i].ComplianceType = "NON_COMPLIANT"

(***************************************************************************)
(* Claims about the listing functions (checked under SpecPages)            *)
(***************************************************************************)

\* the function returned from its return statement, not from an except clause
Returned(function) == fetching = function /\ fetch_pc = "returned"

\* C19: get_rule_details returns all evaluation results of the rule, also when the
\* rule has more results than fit on one page.
C19_AllResultsReturned ==
    Returned("get_rule_details") => fetch_result = service_items

\* the pages the service holds for the request: at least one, possibly empty
NumPages == Max2(1, (Len(service_items) + Limit - 1) \div Limit)

\* every request after the first passed the NextToken of the response before it
TokensChained ==
    /\ requests # <<>> => requests[1] = 0
    /\ \A k \in 2..Len(requests) :
          /\ PageAt(service_items, requests[k - 1]).NextToken # 0
          /\ requests[k] = PageAt(service_items, requests[k - 1]).NextToken

\* the function has returned, normally or through an except clause
Terminated == fetch_pc \in {"returned", "raised"}

\* C20: get_conformance_pack_details issues one request per page, each with the
\* NextToken of the response before it, stops at the first response without a
\* NextToken, terminates when the service has finitely many pages, and returns the
\* rules of all pages in page order, none lost or duplicated.
C20_AllPagesInOrder ==
    /\ [](fetching = "get_conformance_pack_details" => TokensChained)
    /\ [](Returned("get_conformance_pack_details") =>
            /\ Len(requests) = NumPages
            /\ PageAt(service_items, requests[Len(requests)]).NextToken = 0
            /\ fetch_result = service_items)
    /\ (fetching = "get_conformance_pack_details" ~> Terminated)

\* three pages fetched: 250 rules returned in order after three requests
C20_Witness ==
    /\ Returned("get_conformance_pack_details")
    /\ Len(service_items) = MaxItems
    /\ requests = <<0, 2, 3>>
    /\ fetch_result = service_items

(***************************************************************************)
(* Claims about the first pass and the renders (checked under              *)
(* SpecFunctions)                                                          *)
(***************************************************************************)

\* the function named has returned
Applied(function) == applied = function /\ result.returned

\* the place of the rule of that name in the pack's rule list
PlaceInList(rules, rule_name) ==
    CHOOSE i \in DOMAIN rules : rules[i].ConfigRuleName = rule_name

\* where the header of the rule starts in a render, -1 when the rule is not rendered
HeaderAt(text, rule_name) == Find(text, "**" \o rule_name \o "**\n")

\* the rules of rules_data that a render shows come in the order of rules_data
HeadersInOrder(text, rules_data) ==
    \A i, j \in DOMAIN rules_data :
        (/\ i < j
         /\ HeaderAt(text, rules_data[i].rule_name) >= 0
         /\ HeaderAt(text, rules_data[j].rule_name) >= 0)
        => HeaderAt(text, rules_data[i].rule_name) < HeaderAt(text, rules_data[j].rule_name)

\* C21: within each question's group the rules are in the relative order of the
\* pack's rule list, and the detailed and the summarized render emit the rules of the
\* group in that order.
C21_GroupOrderKept ==
    Applied("first_pass") =>
        \A g \in DOMAIN result.value :
            LET rules_data == result.value[g].rules_data
            IN  /\ \A i, j \in DOMAIN rules_data :
                      i < j => PlaceInList(argument.rules, rules_data[i].rule_name)
                                 < PlaceInList(argument.rules, rules_data[j].rule_name)
                /\ HeadersInOrder(detailed_notes(rules_data), rules_data)
                /\ HeadersInOrder(generate_summarized_notes_for_question(rules_data),
                                  rules_data)

\* the pack lists 'rotation' before 'mfa' with a rule of another question between
\* them: the group of 'identities' and both renders show them in that order
C21_Witness ==
    /\ Applied("first_pass")
    /\ argument.rules = << PoolRules[5], PoolRules[2], PoolRules[1] >>
    /\ \E g \in DOMAIN result.value :
          LET rules_data == result.value[g].rules_data
              detailed == detailed_notes(rules_data)
              summarized == generate_summarized_notes_for_question(rules_data)
          IN  /\ Len(rules_data) = 2
              /\ rules_data[1].rule_name = "SEC02-identities_bp_rotation"
              /\ rules_data[2].rule_name = "SEC02-identities_bp_mfa"
              /\ 0 <= HeaderAt(detailed, "SEC02-identities_bp_rotation")
              /\ HeaderAt(detailed, "SEC02-identities_bp_rotation")
                    < HeaderAt(detailed, "SEC02-identities_bp_mfa")
              /\ 0 <= HeaderAt(summarized, "SEC02-identities_bp_rotation")
              /\ HeaderAt(summarized, "SEC02-identities_bp_rotation")
                    < HeaderAt(summarized, "SEC02-identities_bp_mfa")

\* the i-th question id of the argument is a substring of the rule name
DirectAt(i) == Contains(argument.rule_name, argument.question_ids[i])

\* the i-th question id has a '.'-separated fragment of at least 4 characters that is
\* a substring of the rule name
FragmentAt(i) ==
    \E fragment \in Range(SplitDots(argument.question_ids[i])) :
        Len(fragment) >= 4 /\ Contains(argument.rule_name, fragment)

\* C22: a rule is assigned by the partial match only when no known question id is a
\* substring of its name, and then to the first question id with a fragment of at
\* least 4 characters in the name; shorter fragments never match; a direct match
\* wins over every partial match (the first id that matches directly is taken).
C22_PartialMatchFallback ==
    Applied("matching_question_id") =>
        LET ids == DOMAIN argument.question_ids
        IN  /\ (\E i \in ids : DirectAt(i)) =>
                  \E i \in ids : /\ DirectAt(i)
                                 /\ \A j \in ids : j < i => ~DirectAt(j)
                                 /\ result.value = argument.question_ids[i]
            /\ ((\A i \in ids : ~DirectAt(i)) /\ (\E i \in ids : FragmentAt(i))) =>
                  \E i \in ids : /\ FragmentAt(i)
                                 /\ \A j \in ids : j < i => ~FragmentAt(j)
                                 /\ result.value = argument.question_ids[i]
            /\ (\A i \in ids : ~DirectAt(i) /\ ~FragmentAt(i)) => result.value = None

\* 'govern-usage-sec' holds the 3-character fragment 'sec' of the first id and the
\* fragment 'govern-usage' of the second: the second id is taken
C22_Witness ==
    /\ Applied("matching_question_id")
    /\ argument.question_ids = <<"sec.keys", "cost.govern-usage">>
    /\ argument.rule_name = "govern-usage-sec"
    /\ result.value = "cost.govern-usage"

\* the evaluation results of the only rule of the group rendered
OnlyRule == argument[1]

\* the compliant resources of the only rule, as the detailed render would list them
CompliantInfos == Range(resource_infos(OnlyRule.evaluation_results, "COMPLIANT"))

\* the line with the number of compliant resources
CountLine ==
    "[+] " \o ToString(Len(resource_infos(OnlyRule.evaluation_results, "COMPLIANT")))
       \o " compliant resources\n"

\* C23: in the detailed render of a rule with compliant resources, more than 10 of
\* them give one line with the count and no compliant resource listed; 10 or fewer
\* are each listed individually.
C23_CompliantListedUpToTen ==
    (Applied("detailed_notes") /\ Len(argument) = 1 /\ CompliantInfos # {}) =>
        IF Len(resource_infos(OnlyRule.evaluation_results, "COMPLIANT")) > 10
        THEN /\ Contains(result.value, CountLine)
             /\ \A info \in CompliantInfos : ~Contains(result.value, "- " \o info \o "\n")
        ELSE \A info \in CompliantInfos : Contains(result.value, "- " \o info \o "\n")

\* the header of the rule is followed at once by a block
HeaderWithBlock(text, rule_name) ==
    \/ Contains(text, "**" \o rule_name \o "**\n[!] Non-compliant:\n- ")
    \/ Contains(text, "**" \o rule_name \o "**\n[+] ")

\* C24: in the detailed render no rule header stands without a non-compliant or a
\* compliant block after it, and a rule with zero evaluations contributes nothing:
\* its name does not appear.
C24_NoEmptyHeader ==
    Applied("detailed_notes") =>
        /\ \A i \in DOMAIN argument :
              IF argument[i].evaluation_results = <<>>
              THEN ~Contains(result.value, argument[i].rule_name)
              ELSE /\ Count(result.value, "**" \o argument[i].rule_name \o "**\n") = 1
                   /\ HeaderWithBlock(result.value, argument[i].rule_name)
        /\ (\A i \in DOMAIN argument : argument[i].evaluation_results = <<>>) =>
              result.value = ""

\* a rule without evaluations before a rule with one: only the second is shown
C24_Witness ==
    /\ Applied("detailed_notes")
    /\ Len(argument) = 2
    /\ argument[1].evaluation_results = <<>>
    /\ Len(argument[2].evaluation_results) = 1
    /\ StartsWith(result.value, "**SEC02-identities_bp_keys**\n")
    /\ ~Contains(result.value, "SEC02-identities_bp_mfa")

\* the number of evaluations of the only rule with that resource type and status
Evaluated(type, status) ==
    Cardinality({i \in DOMAIN OnlyRule.evaluation_results :
                    /\ OnlyRule.evaluation_results[i].ResourceType = type
                    /\ OnlyRule.evaluation_results[i].ComplianceType = status})

BlockLabel(status) ==
    IF status = "NON_COMPLIANT" THEN "[!] Non-compliant:\n" ELSE "[+] Compliant:\n"

\* the block of a status in a summarized render: from its label to the label of the
\* other block after it, or to the end
BlockOf(text, status) ==
    LET from == Find(text, BlockLabel(status))
        other == Find(text, BlockLabel(IF status = "COMPLIANT"
                                       THEN "NON_COMPLIANT" ELSE "COMPLIANT"))
    IN  IF from < 0 THEN ""
        ELSE IF other > from THEN Sub(text, from, other)
        ELSE SliceFrom(text, from)

\* the resource types of the evaluations drawn
TypesDrawn == {"AWS::IAM::User", "AWS::S3::Bucket"}

\* C25: in the summarized render of a rule the number printed for a resource type and
\* a status is the number of the rule's evaluations with that type and status,
\* duplicates counted and evaluations without a type ignored; only counts above zero
\* are printed; the non-compliant block comes first; a rule none of whose evaluations
\* has a resource type prints nothing.
C25_CountsByTypeAndStatus ==
    (Applied("generate_summarized_notes_for_question") /\ Len(argument) = 1) =>
        IF \A i \in DOMAIN OnlyRule.evaluation_results :
               ~Truthy(OnlyRule.evaluation_results[i].ResourceType)
        THEN result.value = ""
        ELSE /\ StartsWith(result.value, "**" \o OnlyRule.rule_name \o "**\n")
             /\ \A type \in TypesDrawn, status \in {"NON_COMPLIANT", "COMPLIANT"} :
                   IF Evaluated(type, status) > 0
                   THEN /\ Contains(BlockOf(result.value, status),
                                    "- " \o type \o ": "
                                       \o ToString(Evaluated(type, status)) \o " resources\n")
                        /\ Count(BlockOf(result.value, status), "- " \o type \o ": ") = 1
                   ELSE ~Contains(BlockOf(result.value, status), "- " \o type \o ": ")
             /\ ~Contains(result.value, "None")
             /\ ~Contains(result.value, ": 0 resources")
             /\ (/\ Contains(result.value, BlockLabel("NON_COMPLIANT"))
                 /\ Contains(result.value, BlockLabel("COMPLIANT")))
                => Find(result.value, BlockLabel("NON_COMPLIANT"))
                      < Find(result.value, BlockLabel("COMPLIANT"))

\* one user evaluated twice as non-compliant, eleven compliant users, a compliant
\* bucket and a resource without a type
C25_Witness ==
    /\ Applied("generate_summarized_notes_for_question")
    /\ Len(argument) = 1
    /\ Len(OnlyRule.evaluation_results) = 15
    /\ Evaluated("AWS::IAM::User", "NON_COMPLIANT") = 2
    /\ Evaluated(None, "NON_COMPLIANT") = 1
    /\ \A i \in DOMAIN OnlyRule.evaluation_results :
          OnlyRule.evaluation_results[i].ResourceId \in {"bad", "ok"}
    /\ result.value = "**SEC02-identities_bp_mfa**\n"
                        \o "[!] Non-compliant:\n- AWS::IAM::User: 2 resources\n\n"
                        \o "[+] Compliant:\n- AWS::IAM::User: 11 resources\n"
                        \o "- AWS::S3::Bucket: 1 resources\n\n"

\* C29: for every rule group the summarized render is never longer than the detailed
\* render of the same group.
C29_SummarizedNotLonger ==
    Applied("generate_summarized_notes_for_question") =>
        Len(result.value) <= Len(detailed_notes(argument))

\* the identifiers in a rule name: SEC, REL or COST immediately followed by two digits
Identifiers(rule_name) ==
    {prefix \o Sub(rule_name, i - 1 + Len(prefix), i + 1 + Len(prefix)) :
        <<prefix, i>> \in {<<pfx, k>> \in {"SEC", "REL", "COST"} \X (1..Len(rule_name)) :
                              /\ k \in Occurrences(rule_name, pfx)
                              /\ IsDigit(CharAt(rule_name, k - 1 + Len(pfx)))
                              /\ IsDigit(CharAt(rule_name, k + Len(pfx)))}}

\* the resources are in the list, in their order
HoldsAll(resources, list) ==
    \E from \in 0..Len(list) :
        /\ from + Len(resources) <= Len(list)
        /\ \A k \in DOMAIN resources : list[from + k] = resources[k]

\* the rule is filed with all its resources under the best practice id
FiledUnder(rule_name, id) ==
    \E b \in DOMAIN result.value.best_practices :
        /\ result.value.best_practices[b].best_practice_id = id
        /\ HoldsAll(report_resources(EvaluationResults(rule_name)),
                    result.value.best_practices[b].resources)

\* C27: collect_compliance_data files every rule whose name holds SEC, REL or COST
\* immediately followed by two digits, with all its resources, under that identifier
\* in the pillar of its conformance pack; only rules without such an identifier are
\* dropped.
C27_FiledUnderIdentifier ==
    Applied("collect_compliance_data") =>
        /\ result.value.pillar_name = pillar_name_of(argument.conformance_pack_name)
        /\ \A r \in DOMAIN argument.rules :
              Identifiers(argument.rules[r].ConfigRuleName) # {} =>
                  \E id \in Identifiers(argument.rules[r].ConfigRuleName) :
                      FiledUnder(argument.rules[r].ConfigRuleName, id)
        /\ \A b \in DOMAIN result.value.best_practices :
              \E r \in DOMAIN argument.rules :
                  result.value.best_practices[b].best_practice_id
                      \in Identifiers(argument.rules[r].ConfigRuleName)

====
